---- MODULE Spec2Model ----
(***************************************************************************)
(* Control core of the BybitGo trading bot: the circuit breaker that       *)
(* guards external calls, the trading loop that drives one cycle per tick, *)
(* the override channel and its handler, the risk manager's position and   *)
(* halt rules, and the strategy weight engine that turns a market regime   *)
(* into a selected strategy.                                               *)
(*                                                                         *)
(* Time is counted in seconds.  Weights are counted in hundredths; a       *)
(* normalised weight is the pair <<raw, total>> standing for raw / total.  *)
(***************************************************************************)
EXTENDS Integers, Naturals, Sequences, FiniteSets, TLC

(***************************************************************************)
(* Bounds of the model                                                     *)
(***************************************************************************)
MaxTime == 13

NumCallers == 2

\* highest price a position sees; prices range over the five values up to it
MaxPrice == 12

\* highest portfolio drawdown and highest total exposure that are reported
MaxMetric == 7

(***************************************************************************)
(* Program constants                                                       *)
(***************************************************************************)
\* a breaker constructed with a threshold one too low
FailureThresholdLowered == 5 - 1

\* risk.NewCircuitBreaker(10*time.Second, 5): the failure threshold
FailureThreshold == 5

\* risk.NewCircuitBreaker(10*time.Second, 5): the timeout, in seconds
Timeout == 10

\* UpdateTopCoins asks GetTopCoins for 6 coins and GetTopCoins has 6 to give
NumTopCoins == 6

\* make(chan OverrideCommand, 10): the capacity of the override channel
OverrideChannelCap == 10

\* configured stop-loss distance, in percent of the price
StopLossPercent == 10

\* configured take-profit distance, in percent of the entry price
TakeProfitPercent == 25

\* configured maximum portfolio drawdown, in the unit of riskMetrics.drawdown
MaxDrawdown == 2

\* configured total capital, in the unit of riskMetrics.exposure
TotalCapital == 2

VARIABLES
    cb,           \* the shared CircuitBreaker: state, failureCount, lastFailureTime
    now,          \* the wall clock, in seconds
    mu,           \* the callers that hold the breaker's mutex
    pc,           \* position of each concurrent caller inside Call
    ret,          \* what each caller's latest Call returned
    lastOutcome,  \* kind of the latest completed Call
    streak,       \* consecutive failed operations since the last success
    failedAt,     \* time at which the latest failed operation returned
    analyzer,     \* MarketAnalyzer: VolatilityTracker, TrendIndicator, VolumeAnalysis
    StrategyWeights,  \* StrategyAI.StrategyWeights: symbol -> strategy -> weight
    selected,     \* what the latest SelectStrategy(symbol) returned
    lastCalc,     \* regime and un-normalised weights of the latest calculateStrategyWeights
    botPc,        \* position of the trading loop goroutine
    IsRunning,    \* TradingBot.IsRunning
    fetchIdx,     \* index into PortfolioManager.Symbols of the market-data loop
    cycleResult,  \* how the latest runTradingCycle ended
    marketData,   \* runTradingCycle: the symbols that have market data in this cycle
    fetchAnswered,  \* whether the exchange answers the latest market-data request
    traded,       \* the symbols whose trade this cycle has logged
    tradeReport,  \* steps 7 and 8 of this cycle, symbol by symbol: signals, log entries, samples, alerts
    weighted,     \* the symbols whose strategy weights this cycle has stored
    cycleSteps,   \* the steps the current cycle has gone through
    stopTrading,  \* what ShouldStopTrading() returned to this cycle
    cycleAlert,   \* whether this cycle has sent an emergency stop alert
    lastTick,     \* what the latest tick did: started a cycle or skipped it
    cancelled,    \* whether the context given to Run has been cancelled (ctx.Done is closed)
    handlerPc,    \* handleOverrideCommands: receiving from the channel or in the switch
    handlerCommand,  \* the command handleOverrideCommands received last
    commandAlert, \* whether the handler sent an emergency stop alert for its latest command
    OverrideChannel,  \* Dashboard.OverrideChannel: the buffered commands
    httpStatus,   \* status of the latest answer of overrideHandler
    followed,     \* one accepted command an observer follows: its place among the pending ones
    Positions,    \* RiskManager: symbol -> PositionRisk
    lastCheck,    \* the latest CheckStopLossTakeProfit: position before and after, price, actions
    riskMetrics,  \* RiskManager: portfolio drawdown and total exposure
    stopAdvice,   \* what the latest ShouldStopTrading returned, if it was asked
    PriceHistory, \* MarketAnalyzer.PriceHistory: symbol -> closing prices
    CorrelationMatrix,  \* MarketAnalyzer.CorrelationMatrix: pair of symbols -> correlation
    diversification,  \* the latest GetDiversificationScore: its symbols and its result
    Symbols,      \* PortfolioManager.Symbols
    Allocations,  \* PortfolioManager.Allocations: symbol -> base allocation
    Performance,  \* PortfolioManager.Performance: symbol -> performance EMA, in percent
    RecentVolatility,  \* MarketAnalyzer.VolatilityTracker: symbol -> RecentVolatility
    lastAllocation,  \* the latest GetOptimalAllocation: its symbol and what it computed
    lastUpdate,   \* the latest UpdateTopCoins: whether it failed, Symbols and Allocations before it
    TradeLog,     \* PortfolioManager.TradeLog
    PerformanceMetrics,  \* PortfolioManager.PerformanceMetrics
    attached,     \* the positions of the log whose PnL UpdateTradePnL has attached
    regimeInput,  \* the series handed to the regime calculation
    regimeResult  \* what the regime calculation returned for it

breakerVars == <<cb, now, mu, pc, ret, lastOutcome, streak, failedAt>>

aiVars == <<analyzer, StrategyWeights, selected, lastCalc>>

botVars == <<botPc, IsRunning, fetchIdx, cycleResult, marketData, fetchAnswered, traded, weighted,
            tradeReport,
            cycleSteps, stopTrading, cycleAlert, lastTick, cancelled, handlerPc, handlerCommand,
            commandAlert,
            OverrideChannel, httpStatus, followed>>

riskVars == <<Positions, lastCheck, riskMetrics, stopAdvice>>

corrVars == <<PriceHistory, CorrelationMatrix, diversification>>

\* the state of the calculations that are checked on their own
portfolioVars == <<Symbols, Allocations, Performance, RecentVolatility, lastAllocation, lastUpdate>>

logVars == <<TradeLog, PerformanceMetrics, attached>>

regimeVars == <<regimeInput, regimeResult>>

calcVars == <<corrVars, portfolioVars, logVars, regimeVars>>

vars == <<cb, now, mu, pc, ret, lastOutcome, streak, failedAt,
          analyzer, StrategyWeights, selected, lastCalc,
          botPc, IsRunning, fetchIdx, cycleResult, marketData, fetchAnswered, traded, weighted,
          tradeReport,
          cycleSteps, stopTrading, cycleAlert, lastTick, cancelled, handlerPc, handlerCommand,
            commandAlert,
          OverrideChannel, httpStatus, followed,
          Positions, lastCheck, riskMetrics, stopAdvice,
          PriceHistory, CorrelationMatrix, diversification,
          Symbols, Allocations, Performance, RecentVolatility, lastAllocation, lastUpdate,
          TradeLog, PerformanceMetrics, attached, regimeInput, regimeResult>>

Callers == 1..NumCallers

(***************************************************************************)
(* Circuit breaker (risk.CircuitBreaker, Call protocol of section 4.4)     *)
(***************************************************************************)
NewCircuitBreaker ==
    [state |-> "closed", failureCount |-> 0, lastFailureTime |-> 0]

\* read accessor used by runTradingCycle; it does not change the breaker
State(b) == b.state

\* the timeout test with >= in place of >
TimeoutElapsedInclusive(b, t) == t - b.lastFailureTime >= Timeout

\* step 1: more than Timeout has passed since the last failure
TimeoutElapsed(b, t) == t - b.lastFailureTime > Timeout

\* steps 1 and 2: an open breaker whose timeout has elapsed becomes half-open
beforeCall(b, t) ==
    IF b.state = "open" /\ TimeoutElapsed(b, t)
    THEN [b EXCEPT !.state = "half-open"]
    ELSE b

\* a successful trial that closes the breaker but keeps the failure count
onSuccessKeepsTrialCount(b) ==
    IF b.state = "half-open"
    THEN [b EXCEPT !.state = "closed"]
    ELSE [b EXCEPT !.failureCount = 0]

\* a success in the closed state that does not reset the failure count
onSuccessKeepsClosedCount(b) ==
    IF b.state = "half-open"
    THEN [b EXCEPT !.state = "closed", !.failureCount = 0]
    ELSE b

\* steps 4 and 5, the operation returned nil
onSuccess(b) ==
    IF b.state = "half-open"
    THEN [b EXCEPT !.state = "closed", !.failureCount = 0]
    ELSE [b EXCEPT !.failureCount = 0]

\* a failed trial that reopens the breaker without restarting the clock
onFailureKeepsClock(b, t) ==
    IF b.state = "half-open"
    THEN [b EXCEPT !.state = "open"]
    ELSE LET n == b.failureCount + 1
         IN  [b EXCEPT !.failureCount = n,
                       !.lastFailureTime = t,
                       !.state = IF n >= FailureThreshold THEN "open" ELSE @]

\* steps 4 and 5, the operation returned an error at time t
onFailure(b, t) ==
    IF b.state = "half-open"
    THEN [b EXCEPT !.state = "open", !.lastFailureTime = t]
    ELSE LET n == b.failureCount + 1
         IN  [b EXCEPT !.failureCount = n,
                       !.lastFailureTime = t,
                       !.state = IF n >= FailureThreshold THEN "open" ELSE @]

\* a Call that does not wait for the mutex
MutexIgnored(held) == TRUE

\* the exclusive critical section: the mutex is free
MutexAvailable(held) == held = {}

\* the whole Call as one caller sees it when nobody else interleaves:
\* the breaker afterwards, the value returned, and whether op was invoked
Call(b, t, opOk) ==
    LET b1 == beforeCall(b, t)
    IN  IF b1.state = "open"
        THEN [cb |-> b1, ret |-> "CircuitOpenError", invoked |-> FALSE]
        ELSE IF opOk
             THEN [cb |-> onSuccess(b1), ret |-> "nil", invoked |-> TRUE]
             ELSE [cb |-> onFailure(b1, t), ret |-> "OpError", invoked |-> TRUE]

(***************************************************************************)
(* Concurrent callers of one breaker                                       *)
(***************************************************************************)
BreakerInit ==
    /\ cb = NewCircuitBreaker
    /\ now = 0
    /\ mu = {}
    /\ pc = [c \in Callers |-> "idle"]
    /\ ret = [c \in Callers |-> "none"]
    /\ lastOutcome = "none"
    /\ streak = 0
    /\ failedAt = 0

\* the clock advances
Advance ==
    /\ now < MaxTime
    /\ now' = now + 1
    /\ UNCHANGED <<cb, mu, pc, ret, lastOutcome, streak, failedAt, aiVars, botVars, riskVars, calcVars>>

\* Call: mutex.Lock()
CallLock(c) ==
    /\ pc[c] = "idle"
    /\ MutexAvailable(mu)
    /\ mu' = mu \cup {c}
    /\ pc' = [pc EXCEPT ![c] = "locked"]
    /\ UNCHANGED <<cb, now, ret, lastOutcome, streak, failedAt, aiVars, botVars, riskVars, calcVars>>

\* Call: the state check; fast-fail, or start the wrapped operation
CallCheck(c) ==
    /\ pc[c] = "locked"
    /\ LET b1 == beforeCall(cb, now)
       IN  /\ cb' = b1
           /\ IF b1.state = "open"
              THEN /\ ret' = [ret EXCEPT ![c] = "CircuitOpenError"]
                   /\ pc' = [pc EXCEPT ![c] = "idle"]
                   /\ mu' = mu \ {c}
                   /\ lastOutcome' = "fast_fail"
              ELSE /\ pc' = [pc EXCEPT ![c] = "invoking"]
                   /\ UNCHANGED <<ret, mu, lastOutcome>>
    /\ UNCHANGED <<now, streak, failedAt, aiVars, botVars, riskVars, calcVars>>

\* Call: the wrapped operation returns, the breaker is updated, Unlock
CallReturn(c, opOk) ==
    /\ pc[c] = "invoking"
    /\ cb' = IF opOk THEN onSuccess(cb) ELSE onFailure(cb, now)
    /\ ret' = [ret EXCEPT ![c] = IF opOk THEN "nil" ELSE "OpError"]
    /\ lastOutcome' = IF cb.state = "half-open"
                      THEN (IF opOk THEN "trial_success" ELSE "trial_failure")
                      ELSE (IF opOk THEN "success" ELSE "failure")
    /\ streak' = IF opOk THEN 0 ELSE streak + 1
    /\ failedAt' = IF opOk THEN failedAt ELSE now
    /\ pc' = [pc EXCEPT ![c] = "idle"]
    /\ mu' = mu \ {c}
    /\ UNCHANGED <<now, aiVars, botVars, riskVars, calcVars>>

(***************************************************************************)
(* Market regime as the analyzer reports it (market.MarketAnalyzer)        *)
(***************************************************************************)
\* the symbols the analyzer and the strategy engine are exercised with
SymbolIds == {"BTCUSDT"}

\* VolatilityData.VolatilityRegime as calculateVolatility sets it
VolatilityRegimes == {"high", "medium", "low"}

\* TrendData.TrendDirection as calculateTrend sets it
TrendDirections == {"up", "down", "sideways"}

\* VolumeProfile.VolumeTrend as calculateVolumeProfile sets it
VolumeTrends == {"increasing", "decreasing", "stable"}

NewMarketAnalyzer ==
    [VolatilityTracker |-> [s \in SymbolIds |-> "absent"],
     TrendIndicator    |-> [s \in SymbolIds |-> "absent"],
     VolumeAnalysis    |-> [s \in SymbolIds |-> "absent"]]

determineVolatilityRegime(volatilityRegime) ==
    CASE volatilityRegime = "high"   -> "high_volatility"
      [] volatilityRegime = "medium" -> "medium_volatility"
      [] volatilityRegime = "low"    -> "low_volatility"

determineTrendRegime(trendDirection) ==
    CASE trendDirection = "up"   -> "trending_up"
      [] trendDirection = "down" -> "trending_down"
      [] OTHER                   -> "ranging"

determineVolumeRegime(volumeTrend) ==
    CASE volumeTrend = "increasing" -> "high_volume"
      [] volumeTrend = "decreasing" -> "low_volume"
      [] OTHER                      -> "normal_volume"

GetMarketRegime(ma, symbol) ==
    IF \/ ma.VolatilityTracker[symbol] = "absent"
       \/ ma.TrendIndicator[symbol] = "absent"
       \/ ma.VolumeAnalysis[symbol] = "absent"
    THEN [Volatility |-> "unknown", Trend |-> "unknown", Volume |-> "unknown"]
    ELSE [Volatility |-> determineVolatilityRegime(ma.VolatilityTracker[symbol]),
          Trend      |-> determineTrendRegime(ma.TrendIndicator[symbol]),
          Volume     |-> determineVolumeRegime(ma.VolumeAnalysis[symbol])]

(***************************************************************************)
(* Strategy weight engine (strategy.StrategyAI)                            *)
(***************************************************************************)
\* the four StrategyType constants, in their order of declaration
Strategies == <<"market_making", "momentum", "mean_reversion", "volatility_breakout">>

StrategySet == {Strategies[i] : i \in 1..Len(Strategies)}

\* the base weight 0.25, in hundredths
BaseWeight == 25

\* 1.0 in hundredths
Unit == 4 * BaseWeight

weightsOf(mm, mo, mr, vb) ==
    [market_making |-> mm, momentum |-> mo, mean_reversion |-> mr,
     volatility_breakout |-> vb]

\* switch regime.Volatility
VolatilityDelta(volatility) ==
    CASE volatility = "high_volatility" -> weightsOf(-10, 10, -30, 30)
      [] volatility = "low_volatility"  -> weightsOf(10, -10, 30, -30)
      [] OTHER                          -> weightsOf(0, 0, 0, 0)

\* a trend switch whose first case names trending_up only
TrendDeltaUpOnly(trend) ==
    CASE trend = "trending_up" -> weightsOf(-20, 40, -20, 0)
      [] trend = "ranging"     -> weightsOf(10, -30, 40, -20)
      [] OTHER                 -> weightsOf(0, 0, 0, 0)

\* switch regime.Trend
TrendDelta(trend) ==
    CASE trend \in {"trending_up", "trending_down"} -> weightsOf(-20, 40, -20, 0)
      [] trend = "ranging"                          -> weightsOf(10, -30, 40, -20)
      [] OTHER                                      -> weightsOf(0, 0, 0, 0)

\* switch regime.Volume
VolumeDelta(volume) ==
    CASE volume = "high_volume" -> weightsOf(-20, 20, -20, 20)
      [] volume = "low_volume"  -> weightsOf(30, -20, 10, -20)
      [] OTHER                  -> weightsOf(0, 0, 0, 0)

\* the weights before normalisation
rawWeights(regime) ==
    [k \in StrategySet |->
        BaseWeight + VolatilityDelta(regime.Volatility)[k]
                   + TrendDelta(regime.Trend)[k]
                   + VolumeDelta(regime.Volume)[k]]

\* a total that leaves the last strategy out
totalWeightSkipsLast(w) ==
    w[Strategies[1]] + w[Strategies[2]] + w[Strategies[3]]

\* total := sum of all four weights
totalWeight(w) ==
    w[Strategies[1]] + w[Strategies[2]] + w[Strategies[3]] + w[Strategies[4]]

\* each weight divided by total when total > 0, left as it is otherwise
calculateStrategyWeights(regime) ==
    LET w == rawWeights(regime)
        total == totalWeight(w)
    IN  IF total > 0
        THEN [k \in StrategySet |-> [num |-> w[k], den |-> total]]
        ELSE [k \in StrategySet |-> [num |-> w[k], den |-> Unit]]

\* the comparison of the selection loop turned around
GreaterReversed(a, b) == a.num * b.den < b.num * a.den

\* weight a > weight b, for positive denominators
Greater(a, b) == a.num * b.den > b.num * a.den

\* every order in which a Go map of the four weights can be iterated
IterationOrders ==
    {o \in [1..Len(Strategies) -> StrategySet] :
        \A i, j \in 1..Len(Strategies) : o[i] = o[j] => i = j}

\* the selection loop over weights, visited in the given order
RECURSIVE selectBest(_, _, _, _, _)
selectBest(weights, order, i, bestStrategy, highestWeight) ==
    IF i > Len(Strategies)
    THEN bestStrategy
    ELSE IF Greater(weights[order[i]], highestWeight)
         THEN selectBest(weights, order, i + 1, order[i], weights[order[i]])
         ELSE selectBest(weights, order, i + 1, bestStrategy, highestWeight)

AIInit ==
    /\ analyzer = NewMarketAnalyzer
    /\ StrategyWeights = [s \in SymbolIds |-> <<>>]
    /\ selected = [s \in SymbolIds |-> "none"]
    /\ lastCalc = [done |-> FALSE, regime |-> [Volatility |-> "unknown", Trend |-> "unknown", Volume |-> "unknown"],
                   raw |-> weightsOf(0, 0, 0, 0)]

\* AnalyzeMarketConditions(symbol, data): the three trackers of the symbol
\* are replaced by what the series classifies to
AnalyzeMarketConditions(symbol, volatilityRegime, trendDirection, volumeTrend) ==
    /\ analyzer' =
          [VolatilityTracker |-> [analyzer.VolatilityTracker EXCEPT ![symbol] = volatilityRegime],
           TrendIndicator    |-> [analyzer.TrendIndicator EXCEPT ![symbol] = trendDirection],
           VolumeAnalysis    |-> [analyzer.VolumeAnalysis EXCEPT ![symbol] = volumeTrend]]
    /\ UNCHANGED <<StrategyWeights, selected, lastCalc, breakerVars, botVars, riskVars, calcVars>>

\* SelectStrategy(symbol), the weights map being iterated in the given order
SelectStrategy(symbol, order) ==
    LET regime == GetMarketRegime(analyzer, symbol)
        weights == calculateStrategyWeights(regime)
    IN  /\ StrategyWeights' = [StrategyWeights EXCEPT ![symbol] = weights]
        /\ selected' = [selected EXCEPT ![symbol] =
               selectBest(weights, order, 1, Strategies[1], [num |-> 0, den |-> 1])]
        /\ lastCalc' = [done |-> TRUE, regime |-> regime, raw |-> rawWeights(regime)]
        /\ UNCHANGED <<analyzer, breakerVars, botVars, riskVars, calcVars>>

NextAI ==
    \/ \E s \in SymbolIds, v \in VolatilityRegimes, d \in TrendDirections,
          t \in VolumeTrends : AnalyzeMarketConditions(s, v, d, t)
    \/ \E s \in SymbolIds, o \in IterationOrders : SelectStrategy(s, o)

(***************************************************************************)
(* Risk manager (risk.RiskManager, section 4.5).  Prices are whole         *)
(* numbers; a level (stop-loss, take-profit, trailing stop) is kept in     *)
(* hundredths of a price unit, so that price * (1 - stopLossPercent) is    *)
(* exact.  One position is followed.                                       *)
(***************************************************************************)
Prices == (MaxPrice - 4)..MaxPrice

Metrics == 0..MaxMetric

\* a level in hundredths: the price moved by a signed percentage
LevelAt(price, percent) == price * (100 + percent)

\* price <= level, price >= level and price > level, the level in hundredths
AtOrBelow(price, level) == price * 100 <= level

AtOrAbove(price, level) == price * 100 >= level

NoPosition ==
    [open |-> FALSE, entryPrice |-> 0, currentPrice |-> 0, peakValue |-> 0,
     stopLoss |-> 0, takeProfit |-> 0, trailingStop |-> 0, trailingActive |-> FALSE]

\* the PositionRisk created when a position opens at a price; the trailing
\* stop starts at the stop-loss level it replaces
NewPositionRisk(price, trailing) ==
    [open |-> TRUE, entryPrice |-> price, currentPrice |-> price, peakValue |-> price,
     stopLoss |-> LevelAt(price, 0 - StopLossPercent),
     takeProfit |-> LevelAt(price, TakeProfitPercent),
     trailingStop |-> LevelAt(price, 0 - StopLossPercent),
     trailingActive |-> trailing]

\* the three rules tested independently of each other
sltpActionsNoElse(p, price) ==
    (IF p.trailingActive /\ AtOrBelow(price, p.trailingStop)
     THEN <<"TRAILING_STOP">> ELSE <<>>)
    \o (IF AtOrBelow(price, p.stopLoss) THEN <<"STOP_LOSS">> ELSE <<>>)
    \o (IF AtOrAbove(price, p.takeProfit) THEN <<"TAKE_PROFIT">> ELSE <<>>)

\* CheckStopLossTakeProfit, rules (a) to (c): the actions emitted for one
\* open position at a price
sltpActions(p, price) ==
    IF p.trailingActive /\ AtOrBelow(price, p.trailingStop) THEN <<"TRAILING_STOP">>
    ELSE IF AtOrBelow(price, p.stopLoss) THEN <<"STOP_LOSS">>
    ELSE IF AtOrAbove(price, p.takeProfit) THEN <<"TAKE_PROFIT">>
    ELSE <<>>

\* a ratchet that looks neither at the peak nor at the old level
ratchetAppliesOnAnyPrice(p, price) == p.trailingActive

\* CheckStopLossTakeProfit, rule (d): the test for a ratchet
ratchetApplies(p, price) ==
    /\ p.trailingActive
    /\ price > p.peakValue
    /\ LevelAt(price, 0 - StopLossPercent) > p.trailingStop

\* CheckStopLossTakeProfit for one position: the position after the check
checkedPosition(p, price) ==
    IF sltpActions(p, price) = <<>> /\ ratchetApplies(p, price)
    THEN [p EXCEPT !.currentPrice = price,
                   !.trailingStop = LevelAt(price, 0 - StopLossPercent),
                   !.peakValue = price]
    ELSE [p EXCEPT !.currentPrice = price]

\* ShouldStopTrading with >= in place of >
ShouldStopTradingInclusive(m) ==
    \/ m.drawdown >= 2 * MaxDrawdown
    \/ 2 * m.exposure >= 3 * TotalCapital

\* ShouldStopTrading: drawdown > 2 x max drawdown or exposure > 1.5 x capital
ShouldStopTrading(m) ==
    \/ m.drawdown > 2 * MaxDrawdown
    \/ 2 * m.exposure > 3 * TotalCapital

RiskInit ==
    /\ Positions = [s \in SymbolIds |-> NoPosition]
    /\ lastCheck = [done |-> FALSE, before |-> NoPosition, after |-> NoPosition,
                    price |-> 0, actions |-> <<>>]
    /\ riskMetrics = [drawdown |-> 0, exposure |-> 0]
    /\ stopAdvice = [asked |-> FALSE, stop |-> FALSE]

riskIdle == UNCHANGED <<breakerVars, aiVars, botVars, calcVars>>

\* position-update event for a symbol without a position: the position opens
OpenPosition(symbol, price, trailing) ==
    /\ ~Positions[symbol].open
    /\ Positions' = [Positions EXCEPT ![symbol] = NewPositionRisk(price, trailing)]
    /\ UNCHANGED <<lastCheck, riskMetrics, stopAdvice>>
    /\ riskIdle

\* position-update event for an open position: the current price changes, peak
\* value, levels and trailing-stop activation are preserved
UpdatePosition(symbol, price) ==
    /\ Positions[symbol].open
    /\ Positions' = [Positions EXCEPT ![symbol].currentPrice = price]
    /\ UNCHANGED <<lastCheck, riskMetrics, stopAdvice>>
    /\ riskIdle

\* position-update event with size 0: the position closes and is cleared
ClosePosition(symbol) ==
    /\ Positions[symbol].open
    /\ Positions' = [Positions EXCEPT ![symbol] = NoPosition]
    /\ UNCHANGED <<lastCheck, riskMetrics, stopAdvice>>
    /\ riskIdle

\* CheckStopLossTakeProfit(currentPrices) over the open position
CheckStopLossTakeProfit(symbol, price) ==
    /\ Positions[symbol].open
    /\ Positions' = [Positions EXCEPT ![symbol] = checkedPosition(Positions[symbol], price)]
    /\ lastCheck' = [done |-> TRUE, before |-> Positions[symbol],
                     after |-> checkedPosition(Positions[symbol], price), price |-> price,
                     actions |-> sltpActions(Positions[symbol], price)]
    /\ UNCHANGED <<riskMetrics, stopAdvice>>
    /\ riskIdle

\* CalculateRiskMetrics: drawdown and exposure follow the portfolio
CalculateRiskMetrics(drawdown, exposure) ==
    /\ riskMetrics' = [drawdown |-> drawdown, exposure |-> exposure]
    /\ stopAdvice' = [asked |-> FALSE, stop |-> FALSE]
    /\ UNCHANGED <<Positions, lastCheck>>
    /\ riskIdle

\* ShouldStopTrading() asked on the current metrics
AskShouldStopTrading ==
    /\ stopAdvice' = [asked |-> TRUE, stop |-> ShouldStopTrading(riskMetrics)]
    /\ UNCHANGED <<Positions, lastCheck, riskMetrics>>
    /\ riskIdle

\* the position risk of the risk manager
NextRisk ==
    \/ \E s \in SymbolIds, p \in Prices, t \in BOOLEAN : OpenPosition(s, p, t)
    \/ \E s \in SymbolIds, p \in Prices : UpdatePosition(s, p)
    \/ \E s \in SymbolIds : ClosePosition(s)
    \/ \E s \in SymbolIds, p \in Prices : CheckStopLossTakeProfit(s, p)

\* the portfolio-level halt condition of the risk manager
NextHalt ==
    \/ \E d \in Metrics, e \in Metrics : CalculateRiskMetrics(d, e)
    \/ AskShouldStopTrading

(***************************************************************************)
(* Trading loop (TradingBot.Run, tradingLoop, runTradingCycle), the        *)
(* override handler (handleOverrideCommands) and the dashboard's override  *)
(* channel.  A cycle is followed step by step; what it keeps per cycle is  *)
(* the set of symbols with market data, the set of symbols it traded and   *)
(* the steps it went through.  The loop is the breaker's only caller, so   *)
(* each of its Calls is one step.                                          *)
(***************************************************************************)
\* the values a dashboard client can post as an override command
Commands == {"start", "stop", "rebalance", "emergency_stop", "pause"}

\* the commands posted while the override channel is filled
PostedCommands == {"stop", "pause"}

\* the commands posted while the handler is followed
QueuedCommands == {"start", "emergency_stop"}

\* most commands the operator lets wait in the channel while the handler is followed
MaxQueued == 3

\* the Symbols of the portfolio manager, by index
SymbolIndexes == 1..NumTopCoins

\* the report of a cycle that has not reached step 7
NoReport ==
    [actions |-> [s \in SymbolIndexes |-> "none"],
     failed  |-> {},
     logged  |-> [s \in SymbolIndexes |-> 0],
     sampled |-> [s \in SymbolIndexes |-> 0],
     alerts  |-> {}]

BotInit ==
    /\ botPc = "run"
    /\ IsRunning = TRUE
    /\ fetchIdx = 1
    /\ cycleResult = "none"
    /\ marketData = {}
    /\ fetchAnswered = TRUE
    /\ traded = {}
    /\ tradeReport = NoReport
    /\ weighted = {}
    /\ cycleSteps = {}
    /\ stopTrading = FALSE
    /\ cycleAlert = FALSE
    /\ lastTick = "none"
    /\ cancelled = FALSE
    /\ handlerPc = "receive"
    /\ handlerCommand = "none"
    /\ commandAlert = FALSE
    /\ OverrideChannel = <<>>
    /\ httpStatus = 0
    /\ followed = [position |-> 0, command |-> "none", applied |-> FALSE]

\* a step of the loop leaves the concurrent callers, their observers, the
\* strategy engine and the risk manager as they are
callerIdle == UNCHANGED <<mu, pc, ret, lastOutcome, streak, failedAt, aiVars, riskVars, calcVars>>

\* a step of the trading loop leaves the override handler and the channel alone
handlerIdle ==
    UNCHANGED <<handlerPc, handlerCommand, commandAlert, OverrideChannel, httpStatus, followed>>

\* a step of the override handler or of the dashboard leaves the loop alone
loopIdle ==
    UNCHANGED <<cb, now, botPc, fetchIdx, cycleResult, marketData, fetchAnswered,
                traded, weighted, cycleSteps, stopTrading, cycleAlert, lastTick, cancelled,
                tradeReport>>

\* Run: UpdateTopCoins (GetTopCoins returns its fixed list and no error),
\* then tradingLoop runs the initial cycle without looking at IsRunning
Run ==
    /\ botPc = "run"
    /\ botPc' = "cycle_start"
    /\ UNCHANGED <<cb, now, IsRunning, fetchIdx, cycleResult, marketData, fetchAnswered,
                   traded, weighted, cycleSteps, stopTrading, cycleAlert, lastTick>>
    /\ UNCHANGED <<cancelled, tradeReport>>
    /\ handlerIdle
    /\ callerIdle

\* overrideHandler: the send finds the handler goroutine waiting on the empty
\* channel, so the command goes straight to it
overrideHandoff(command) ==
    /\ handlerPc = "receive"
    /\ OverrideChannel = <<>>
    /\ handlerPc' = "switch"
    /\ handlerCommand' = command
    /\ commandAlert' = FALSE
    /\ httpStatus' = 200
    /\ UNCHANGED <<IsRunning, OverrideChannel, followed>>
    /\ loopIdle
    /\ callerIdle

\* a send that is accepted whatever the channel holds
channelHasRoomAlways(channel) == TRUE

\* select { case d.OverrideChannel <- command: ... default: ... } on a channel
\* made with capacity 10
channelHasRoom(channel) == Len(channel) < OverrideChannelCap

\* overrideHandler: a POST with a well-formed body; the command is sent
\* without blocking, and a full channel answers 503 Command queue full
overrideHandler(command) ==
    /\ IF channelHasRoom(OverrideChannel)
       THEN /\ OverrideChannel' = Append(OverrideChannel, command)
            /\ httpStatus' = 200
       ELSE /\ httpStatus' = 503
            /\ UNCHANGED OverrideChannel
    /\ UNCHANGED <<IsRunning, handlerPc, handlerCommand, commandAlert, followed>>
    /\ loopIdle
    /\ callerIdle

\* a receive that takes the command buffered last
receivedNewest(channel) == channel[Len(channel)]

\* a receive from a buffered channel yields the value buffered first
received(channel) == Head(channel)

\* handleOverrideCommands: for command := range GetOverrideChannel()
ReceiveOverride ==
    /\ handlerPc = "receive"
    /\ OverrideChannel # <<>>
    /\ handlerPc' = "switch"
    /\ handlerCommand' = received(OverrideChannel)
    /\ OverrideChannel' = Tail(OverrideChannel)
    /\ commandAlert' = FALSE
    /\ UNCHANGED <<IsRunning, httpStatus, followed>>
    /\ loopIdle
    /\ callerIdle

\* a switch whose default branch stops the bot
runningAfterStopsOnDefault(command, running) ==
    CASE command = "start"     -> TRUE
      [] command = "rebalance" -> running
      [] OTHER                 -> FALSE

\* handleOverrideCommands, switch command.Command: the value of IsRunning
runningAfter(command, running) ==
    CASE command = "start"          -> TRUE
      [] command = "stop"           -> FALSE
      [] command = "emergency_stop" -> FALSE
      [] OTHER                      -> running

\* handleOverrideCommands: the body of the loop for the received command
handleOverrideCommands(command) ==
    /\ handlerPc = "switch"
    /\ handlerCommand = command
    /\ IsRunning' = runningAfter(command, IsRunning)
    /\ commandAlert' = (command = "emergency_stop")
    /\ handlerPc' = "receive"
    /\ followed' = IF followed.position = 0 THEN followed
                   ELSE [position |-> followed.position - 1,
                         command |-> followed.command,
                         applied |-> followed.position = 1]
    /\ UNCHANGED <<handlerCommand, OverrideChannel, httpStatus>>
    /\ loopIdle
    /\ callerIdle

\* the commands accepted and not applied yet, oldest first: the one the
\* handler holds in its switch, then the buffered ones
pendingCommands ==
    (IF handlerPc = "switch" THEN <<handlerCommand>> ELSE <<>>) \o OverrideChannel

\* an observer picks one of the pending commands to follow until it is applied
Follow(n) ==
    /\ followed.position = 0
    /\ n \in 1..Len(pendingCommands)
    /\ followed' = [position |-> n, command |-> pendingCommands[n], applied |-> FALSE]
    /\ UNCHANGED <<IsRunning, handlerPc, handlerCommand, commandAlert, OverrideChannel, httpStatus>>
    /\ loopIdle
    /\ callerIdle

\* the operator posts a command while fewer than MaxQueued commands are buffered
Post(command) ==
    /\ Len(OverrideChannel) < MaxQueued
    /\ overrideHandler(command)

\* a tick that starts a cycle whatever the flag says
tickRunsAlways(running) == TRUE

\* tradingLoop, case <-ticker.C: if bot.IsRunning
tickRuns(running) == running

\* tradingLoop: case <-ticker.C
Tick ==
    /\ botPc = "wait"
    /\ botPc' = IF tickRuns(IsRunning) THEN "cycle_start" ELSE "wait"
    /\ lastTick' = IF tickRuns(IsRunning) THEN "cycle" ELSE "skipped"
    /\ UNCHANGED <<cb, now, IsRunning, fetchIdx, cycleResult, marketData, fetchAnswered,
                   traded, weighted, cycleSteps, stopTrading, cycleAlert>>
    /\ UNCHANGED <<cancelled, tradeReport>>
    /\ handlerIdle
    /\ callerIdle

\* the caller of Run cancels the context; nothing in the loop undoes it
Cancel ==
    /\ botPc # "stopped"
    /\ ~cancelled
    /\ cancelled' = TRUE
    /\ UNCHANGED <<cb, now, botPc, IsRunning, fetchIdx, cycleResult, marketData, fetchAnswered,
                   traded, weighted, cycleSteps, stopTrading, cycleAlert, lastTick, tradeReport>>
    /\ UNCHANGED <<handlerPc, handlerCommand, commandAlert, OverrideChannel, httpStatus, followed>>
    /\ callerIdle

\* a loop that does not look at the context
doneReadyNever(c) == FALSE

\* tradingLoop: case <-ctx.Done() is ready once the context is cancelled
doneReady(c) == c

\* tradingLoop: case <-ctx.Done(): return nil
ShutdownOnCancel ==
    /\ botPc = "wait"
    /\ doneReady(cancelled)
    /\ botPc' = "stopped"
    /\ UNCHANGED <<cb, now, IsRunning, fetchIdx, cycleResult, marketData, fetchAnswered,
                   traded, weighted, cycleSteps, stopTrading, cycleAlert, lastTick>>
    /\ UNCHANGED <<cancelled, tradeReport>>
    /\ handlerIdle
    /\ callerIdle

\* tradingLoop: case <-sigChan: return nil (StopChan would end the loop the
\* same way, but nothing sends on it or closes it)
Shutdown ==
    /\ botPc = "wait"
    /\ botPc' = "stopped"
    /\ UNCHANGED <<cb, now, IsRunning, fetchIdx, cycleResult, marketData, fetchAnswered,
                   traded, weighted, cycleSteps, stopTrading, cycleAlert, lastTick>>
    /\ UNCHANGED <<cancelled, tradeReport>>
    /\ handlerIdle
    /\ callerIdle

\* runTradingCycle: if CircuitBreaker.State() == "open" return nil
CycleStart ==
    /\ botPc = "cycle_start"
    /\ IF State(cb) = "open"
       THEN /\ botPc' = "wait"
            /\ cycleResult' = "skipped_open"
       ELSE /\ botPc' = "update"
            /\ UNCHANGED cycleResult
    /\ cycleSteps' = {}
    /\ stopTrading' = FALSE
    /\ cycleAlert' = FALSE
    /\ UNCHANGED <<cb, now, IsRunning, fetchIdx, marketData, fetchAnswered, traded, weighted,
                   lastTick>>
    /\ UNCHANGED <<cancelled, tradeReport>>
    /\ handlerIdle
    /\ callerIdle

\* a cycle that goes on to the market data whatever step 1 returned
updateEndsCycleNever(r) == FALSE

\* runTradingCycle step 1: if err != nil return
updateEndsCycle(r) == r # "nil"

\* runTradingCycle step 1: Call(UpdateTopCoins); opOk tells whether
\* GetTopCoins answers
CycleUpdateTopCoins(opOk) ==
    /\ botPc = "update"
    /\ LET r == Call(cb, now, opOk)
       IN  /\ cb' = r.cb
           /\ IF updateEndsCycle(r.ret)
              THEN /\ botPc' = "wait"
                   /\ cycleResult' = "update_failed"
                   /\ UNCHANGED fetchIdx
              ELSE /\ botPc' = "fetch"
                   /\ fetchIdx' = 1
                   /\ UNCHANGED cycleResult
    /\ cycleSteps' = cycleSteps \cup {"update"}
    /\ UNCHANGED <<now, IsRunning, marketData, fetchAnswered, traded, weighted, stopTrading,
                   cycleAlert, lastTick>>
    /\ UNCHANGED <<cancelled, tradeReport>>
    /\ handlerIdle
    /\ callerIdle

\* runTradingCycle step 2, one iteration: Call(GetMarketData(symbol)); on an
\* error the symbol is skipped and the loop goes on with the next one; opOk
\* tells whether the exchange answers the request for this symbol
CycleFetch(opOk) ==
    /\ botPc = "fetch"
    /\ LET r == Call(cb, now, opOk)
       IN  /\ cb' = r.cb
           /\ marketData' = IF r.ret = "nil" THEN marketData \cup {fetchIdx} ELSE marketData
    /\ fetchAnswered' = opOk
    /\ IF fetchIdx < NumTopCoins
       THEN /\ fetchIdx' = fetchIdx + 1
            /\ UNCHANGED botPc
       ELSE /\ fetchIdx' = 1
            /\ botPc' = "select"
    /\ cycleSteps' = cycleSteps \cup {"fetch"}
    /\ UNCHANGED <<now, IsRunning, cycleResult, traded, weighted, stopTrading, cycleAlert,
                   lastTick>>
    /\ UNCHANGED <<cancelled, tradeReport>>
    /\ handlerIdle
    /\ callerIdle

\* runTradingCycle step 6: for _, symbol := range PortfolioManager.Symbols,
\* the symbols SelectStrategy is called for
selectedSymbols(data) == SymbolIndexes

\* runTradingCycle steps 3 to 6: correlations, stop-loss and drawdown gates
\* (their actions are only logged), SelectStrategy for every symbol, which
\* recomputes and stores the symbol's weights
CycleSelect ==
    /\ botPc = "select"
    /\ botPc' = "execute"
    /\ weighted' = selectedSymbols(marketData)
    /\ cycleSteps' = cycleSteps \cup {"select"}
    /\ UNCHANGED <<cb, now, IsRunning, fetchIdx, cycleResult, marketData, fetchAnswered,
                   traded, stopTrading, cycleAlert, lastTick>>
    /\ UNCHANGED <<cancelled, tradeReport>>
    /\ handlerIdle
    /\ callerIdle

\* what the strategies answer in a cycle of the model, symbol by symbol: no
\* signal at all, or a BUY for the first symbol and a SELL for the fourth
SignalPatterns ==
    {[s \in SymbolIndexes |-> "HOLD"],
     [s \in SymbolIndexes |-> IF s = 1 THEN "BUY" ELSE IF s = 4 THEN "SELL" ELSE "HOLD"]}

\* the symbols whose Execute returns an error in a cycle of the model
FailurePatterns == {{}, {1}, {2, 4}}

\* a loop that gives up at the first signal whose execution fails
executeErrorEndsLoopAtOnce(err) == err

\* if err := strategyImpl.Execute(signal); err != nil { log.Printf(...) }:
\* the error is logged and the iteration goes on
executeErrorEndsLoop(err) == FALSE

\* if signal.Action != "HOLD" { bot.Notifier.SendTradeAlert(alert) }
alertSent(action) == action # "HOLD"

RECURSIVE executeStrategies(_, _, _, _, _)
\* runTradingCycle steps 7 and 8, from the i-th symbol on: a symbol without
\* market data is skipped (every strategy type has an implementation); for
\* the others Analyze, Execute, LogTrade, the alert and
\* performanceData[symbol], whose entries UpdatePerformance then records one by one
executeStrategies(data, actions, failing, i, report) ==
    IF i > NumTopCoins THEN report
    ELSE IF i \notin data THEN executeStrategies(data, actions, failing, i + 1, report)
    ELSE IF executeErrorEndsLoop(i \in failing)
         THEN [report EXCEPT !.actions[i] = actions[i], !.failed = @ \cup {i}]
    ELSE executeStrategies(data, actions, failing, i + 1,
             [actions |-> [report.actions EXCEPT ![i] = actions[i]],
              failed  |-> IF i \in failing THEN report.failed \cup {i} ELSE report.failed,
              logged  |-> [report.logged EXCEPT ![i] = @ + 1],
              sampled |-> [report.sampled EXCEPT ![i] = 1],
              alerts  |-> IF alertSent(actions[i]) THEN report.alerts \cup {i}
                          ELSE report.alerts])

\* runTradingCycle steps 7 and 8: every symbol with market data is analysed,
\* its signal executed, its trade logged and its performance updated
CycleExecute ==
    /\ botPc = "execute"
    /\ botPc' = "rebalance"
    /\ \E actions \in SignalPatterns, failing \in FailurePatterns :
           tradeReport' = executeStrategies(marketData, actions, failing, 1, NoReport)
    /\ traded' = {s \in SymbolIndexes : tradeReport'.logged[s] > 0}
    /\ cycleSteps' = cycleSteps \cup {"execute"}
    /\ UNCHANGED <<cb, now, IsRunning, fetchIdx, cycleResult, marketData, fetchAnswered,
                   weighted, stopTrading, cycleAlert, lastTick>>
    /\ UNCHANGED cancelled
    /\ handlerIdle
    /\ callerIdle

\* a cycle that goes on to the risk check whatever the rebalance returned
rebalanceEndsCycleNever(r) == FALSE

\* runTradingCycle step 9: if err != nil return
rebalanceEndsCycle(r) == r # "nil"

\* runTradingCycle step 9: Call(RebalancePortfolio); an error ends the cycle;
\* opOk tells whether the GetTopCoins inside RebalancePortfolio answers
CycleRebalance(opOk) ==
    /\ botPc = "rebalance"
    /\ LET r == Call(cb, now, opOk)
       IN  /\ cb' = r.cb
           /\ IF rebalanceEndsCycle(r.ret)
              THEN /\ botPc' = "wait"
                   /\ cycleResult' = "rebalance_failed"
                   /\ marketData' = {}
                   /\ traded' = {}
                   /\ weighted' = {}
              ELSE /\ botPc' = "risk"
                   /\ UNCHANGED <<cycleResult, marketData, traded, weighted>>
    /\ tradeReport' = NoReport  \* performanceData is local to the cycle and spent by step 8
    /\ cycleSteps' = cycleSteps \cup {"rebalance"}
    /\ UNCHANGED <<now, IsRunning, fetchIdx, fetchAnswered, stopTrading, cycleAlert, lastTick>>
    /\ UNCHANGED cancelled
    /\ handlerIdle
    /\ callerIdle

\* runTradingCycle step 10: CalculateRiskMetrics, the reports, and
\* if ShouldStopTrading() { SendEmergencyStopAlert("Risk limits exceeded") };
\* stop is what ShouldStopTrading() returns
CycleRiskCheck(stop) ==
    /\ botPc = "risk"
    /\ botPc' = "wait"
    /\ stopTrading' = stop
    /\ cycleAlert' = stop
    /\ cycleResult' = "complete"
    /\ marketData' = {}
    /\ traded' = {}
    /\ weighted' = {}
    /\ cycleSteps' = cycleSteps \cup {"risk"}
    /\ UNCHANGED <<cb, now, IsRunning, fetchIdx, fetchAnswered, lastTick>>
    /\ UNCHANGED <<cancelled, tradeReport>>
    /\ handlerIdle
    /\ callerIdle

\* the clock advances while the loop runs or waits
BotAdvance ==
    /\ now < MaxTime
    /\ now' = now + 1
    /\ UNCHANGED <<cb, botVars>>
    /\ callerIdle

\* the bot as built: GetTopCoins returns its fixed list, so neither step 1 nor
\* the rebalance fails by itself; the clock runs
NextBot ==
    \/ Run
    \/ Tick
    \/ Shutdown
    \/ CycleStart
    \/ CycleUpdateTopCoins(TRUE)
    \/ CycleFetch(TRUE)
    \/ CycleFetch(FALSE)
    \/ CycleSelect
    \/ CycleExecute
    \/ CycleRebalance(TRUE)
    \/ CycleRiskCheck(TRUE)
    \/ CycleRiskCheck(FALSE)
    \/ BotAdvance

\* the bot with its operator and with an exchange client whose every request
\* can fail; the clock stands still
NextLoop ==
    \/ Run
    \/ \E command \in Commands : overrideHandoff(command)
    \/ \E command \in Commands : handleOverrideCommands(command)
    \/ Tick
    \/ Cancel
    \/ ShutdownOnCancel
    \/ Shutdown
    \/ CycleStart
    \/ CycleUpdateTopCoins(TRUE)
    \/ CycleUpdateTopCoins(FALSE)
    \/ CycleFetch(TRUE)
    \/ CycleFetch(FALSE)
    \/ CycleSelect
    \/ CycleExecute
    \/ CycleRebalance(TRUE)
    \/ CycleRebalance(FALSE)
    \/ CycleRiskCheck(TRUE)
    \/ CycleRiskCheck(FALSE)

\* the dashboard filling the override channel and the handler draining it
NextQueue ==
    \/ \E command \in PostedCommands : overrideHandler(command)
    \/ ReceiveOverride
    \/ \E command \in PostedCommands : handleOverrideCommands(command)

\* the dashboard, the override handler and a trading loop whose every request
\* succeeds, all running side by side
NextQueueLoop ==
    \/ \E command \in QueuedCommands : Post(command)
    \/ ReceiveOverride
    \/ \E command \in QueuedCommands : handleOverrideCommands(command)
    \/ \E n \in 1..(MaxQueued + 1) : Follow(n)
    \/ Run
    \/ Tick
    \/ CycleStart
    \/ CycleUpdateTopCoins(TRUE)
    \/ CycleFetch(TRUE)
    \/ CycleSelect
    \/ CycleExecute
    \/ CycleRebalance(TRUE)
    \/ CycleRiskCheck(FALSE)

\* ---------------------------------------------------------------------------
\* Floating-point arithmetic. The analyzer computes in float64: IEEE 754 binary
\* floating point, every operation rounded to the nearest representable value,
\* ties to the even significand. The model keeps exactly that rounding on a
\* significand of SignificandBits bits instead of 53, so that every
\* intermediate value fits the integers of the model checker; exponents are
\* unbounded (no overflow, no underflow). A value is m * 2^e with m odd, or 0.
\* ---------------------------------------------------------------------------

SignificandBits == 8

Min(a, b) == IF a < b THEN a ELSE b

AbsInt(n) == IF n < 0 THEN 0 - n ELSE n

RECURSIVE BitLen(_)
\* number of binary digits of n >= 0
BitLen(n) == IF n = 0 THEN 0 ELSE 1 + BitLen(n \div 2)

RECURSIVE Normalise(_, _)
\* the canonical form of m * 2^e
Normalise(m, e) ==
    IF m = 0 THEN [m |-> 0, e |-> 0]
    ELSE IF m % 2 = 0 THEN Normalise(m \div 2, e + 1)
    ELSE [m |-> m, e |-> e]

\* a >= 0 without its k low digits, rounded to nearest, ties to even
RoundInt(a, k) ==
    LET q == a \div (2 ^ k)
        r == a % (2 ^ k)
        half == 2 ^ (k - 1)
    IN  IF r > half \/ (r = half /\ q % 2 = 1) THEN q + 1 ELSE q

\* m * 2^e rounded to the significand of the format
Round(m, e) ==
    LET a == AbsInt(m)
        k == BitLen(a) - SignificandBits
    IN  IF k <= 0 THEN Normalise(m, e)
        ELSE Normalise((IF m < 0 THEN 0 - 1 ELSE 1) * RoundInt(a, k), e + k)

Zero == [m |-> 0, e |-> 0]

One == [m |-> 1, e |-> 0]

\* float64(n)
FromInt(n) == Round(n, 0)

Neg(x) == [m |-> 0 - x.m, e |-> x.e]

Abs(x) == [m |-> AbsInt(x.m), e |-> x.e]

\* x < y, exactly
Less(x, y) ==
    LET e == Min(x.e, y.e)
    IN  x.m * (2 ^ (x.e - e)) < y.m * (2 ^ (y.e - e))

\* x + y
Add(x, y) ==
    LET e == Min(x.e, y.e)
    IN  Round(x.m * (2 ^ (x.e - e)) + y.m * (2 ^ (y.e - e)), e)

\* x - y
Sub(x, y) == Add(x, Neg(y))

\* x * y
Mul(x, y) == Round(x.m * y.m, x.e + y.e)

\* x / y for y # 0: enough digits of the quotient, and one more digit that
\* says whether the division left a remainder, then the rounding
Div(x, y) ==
    LET a == AbsInt(x.m)
        b == AbsInt(y.m)
        shift == SignificandBits + 2 + BitLen(b) - BitLen(a)
        q == (a * (2 ^ shift)) \div b
        sticky == IF (a * (2 ^ shift)) % b = 0 THEN 0 ELSE 1
        sign == IF (x.m < 0) # (y.m < 0) THEN 0 - 1 ELSE 1
    IN  IF a = 0 THEN Zero
        ELSE Round(sign * (2 * q + sticky), x.e - y.e - shift - 1)

RECURSIVE SqrtBetween(_, _, _)
\* the largest r in lo..hi with r * r <= n
SqrtBetween(n, lo, hi) ==
    IF lo = hi THEN lo
    ELSE LET mid == (lo + hi + 1) \div 2
         IN  IF mid * mid <= n THEN SqrtBetween(n, mid, hi)
             ELSE SqrtBetween(n, lo, mid - 1)

\* math.Sqrt(x) for x >= 0, rounded as the other operations are
Sqrt(x) ==
    LET wanted == 2 * (SignificandBits + 2) - BitLen(x.m)
        shift == IF (x.e - wanted) % 2 = 0 THEN wanted ELSE wanted + 1
        n == x.m * (2 ^ shift)
        r == SqrtBetween(n, 0, 2 ^ (SignificandBits + 3))
        sticky == IF r * r = n THEN 0 ELSE 1
    IN  IF x.m = 0 THEN Zero
        ELSE Round(2 * r + sticky, ((x.e - shift) \div 2) - 1)

\* ---------------------------------------------------------------------------
\* MarketAnalyzer: price history, correlation matrix, diversification score
\* ---------------------------------------------------------------------------

\* longest kline answer of the model
MaxBars == 3

\* highest closing price of the model
MaxClose == 3

\* updatePriceHistory keeps only the last 100 prices
HistoryCap == 100

HistorySymbols == {"BTCUSDT", "ETHUSDT"}

Closes == 1..MaxClose

\* the answers GetMarketData can give: the closing prices of up to MaxBars bars
Klines == UNION {[1..n -> Closes] : n \in 0..MaxBars}

\* updatePriceHistory: the closes of the klines, the last HistoryCap of them
updatePriceHistory(kline) ==
    LET prices == [i \in 1..Len(kline) |-> FromInt(kline[i])]
    IN  IF Len(prices) > HistoryCap
        THEN SubSeq(prices, Len(prices) - HistoryCap + 1, Len(prices))
        ELSE prices

RECURSIVE sumOf(_, _)
\* sumX += x[i], for the first n elements
sumOf(x, n) == IF n = 0 THEN Zero ELSE Add(sumOf(x, n - 1), x[n])

RECURSIVE sumOfProducts(_, _, _)
\* numerator += diffX * diffY, for the first n elements
sumOfProducts(dx, dy, n) ==
    IF n = 0 THEN Zero ELSE Add(sumOfProducts(dx, dy, n - 1), Mul(dx[n], dy[n]))

\* pearsonCorrelation
pearsonCorrelation(x, y) ==
    LET n == Len(x)
        meanX == Div(sumOf(x, n), FromInt(n))
        meanY == Div(sumOf(y, n), FromInt(n))
        diffX == [i \in 1..n |-> Sub(x[i], meanX)]
        diffY == [i \in 1..n |-> Sub(y[i], meanY)]
        numerator == sumOfProducts(diffX, diffY, n)
        denomX == sumOfProducts(diffX, diffX, n)
        denomY == sumOfProducts(diffY, diffY, n)
    IN  IF n # Len(y) \/ n < 2 THEN Zero
        ELSE IF denomX = Zero \/ denomY = Zero THEN Zero
        ELSE Div(numerator, Sqrt(Mul(denomX, denomY)))

\* calculateCorrelation
calculateCorrelation(history, symbol1, symbol2) ==
    IF symbol1 \notin DOMAIN history \/ symbol2 \notin DOMAIN history THEN Zero
    ELSE LET prices1 == history[symbol1]
             prices2 == history[symbol2]
             minLen == Min(Len(prices1), Len(prices2))
         IN  IF minLen < 2 THEN Zero
             ELSE pearsonCorrelation(
                      SubSeq(prices1, Len(prices1) - minLen + 1, Len(prices1)),
                      SubSeq(prices2, Len(prices2) - minLen + 1, Len(prices2)))

\* make(map[string]map[string]float64)
NoCorrelations == [p \in {} |-> Zero]

\* ma.CorrelationMatrix[a][b] = v
withEntry(matrix, a, b, v) ==
    [p \in DOMAIN matrix \cup {<<a, b>>} |-> IF p = <<a, b>> THEN v ELSE matrix[p]]

\* the orders in which range can go through the keys of a map
Orders(keys) ==
    {o \in [1..Cardinality(keys) -> keys] : \A k \in keys : \E i \in DOMAIN o : o[i] = k}

RECURSIVE correlationsAfter(_, _, _)
\* the matrix after the first k rounds of the two nested loops of
\* CalculateCorrelations, going through the symbols in the given order
correlationsAfter(history, order, k) ==
    IF k = 0 THEN NoCorrelations
    ELSE LET n == Len(order)
             i == ((k - 1) \div n) + 1
             j == ((k - 1) % n) + 1
             symbol1 == order[i]
             symbol2 == order[j]
             matrix == correlationsAfter(history, order, k - 1)
             corr == calculateCorrelation(history, symbol1, symbol2)
         IN  IF i = j THEN withEntry(matrix, symbol1, symbol2, One)
             ELSE withEntry(withEntry(matrix, symbol1, symbol2, corr), symbol2, symbol1, corr)

RECURSIVE upperPairs(_, _, _)
\* the pairs i < j of 1..n in the order of the two loops of GetDiversificationScore
upperPairs(n, i, j) ==
    IF i >= n THEN <<>>
    ELSE IF j > n THEN upperPairs(n, i + 1, i + 2)
    ELSE <<<<i, j>>>> \o upperPairs(n, i, j + 1)

RECURSIVE totalCorrelation(_, _, _, _)
\* totalCorrelation += math.Abs(correlation), over the first k pairs
totalCorrelation(matrix, symbols, pairs, k) ==
    IF k = 0 THEN Zero
    ELSE LET p == <<symbols[pairs[k][1]], symbols[pairs[k][2]]>>
             correlation == IF p \in DOMAIN matrix THEN matrix[p] ELSE Zero
         IN  Add(totalCorrelation(matrix, symbols, pairs, k - 1), Abs(correlation))

\* GetDiversificationScore
diversificationScore(matrix, symbols) ==
    LET pairs == upperPairs(Len(symbols), 1, 2)
        count == Len(pairs)
    IN  IF Len(symbols) <= 1 THEN One
        ELSE IF count = 0 THEN One
        ELSE Sub(One, Div(totalCorrelation(matrix, symbols, pairs, count), FromInt(count)))

\* the portfolios GetDiversificationScore is asked about
Portfolios == UNION {[1..n -> HistorySymbols] : n \in 0..2}

\* NewMarketAnalyzer
CorrInit ==
    /\ PriceHistory = [s \in {} |-> <<>>]
    /\ CorrelationMatrix = NoCorrelations
    /\ diversification = [asked |-> FALSE, symbols |-> <<>>, score |-> One]

\* an analyzer that has stored the closing prices of some symbols
\* (AnalyzeMarketConditions -> updatePriceHistory) and no correlations yet
CorrInputs ==
    /\ \E keys \in SUBSET HistorySymbols :
           PriceHistory \in [keys -> {updatePriceHistory(kline) : kline \in Klines}]
    /\ CorrelationMatrix = NoCorrelations
    /\ diversification = [asked |-> FALSE, symbols |-> <<>>, score |-> One]

\* a step of the analyzer leaves the rest of the program alone
analyzerOnly ==
    UNCHANGED <<breakerVars, aiVars, botVars, riskVars, portfolioVars, logVars, regimeVars>>

\* CalculateCorrelations
CalculateCorrelations(order) ==
    /\ order \in Orders(DOMAIN PriceHistory)
    /\ CorrelationMatrix' =
           correlationsAfter(PriceHistory, order, Len(order) * Len(order))
    /\ UNCHANGED <<PriceHistory, diversification>>
    /\ analyzerOnly

\* GetDiversificationScore(symbols)
GetDiversificationScore(symbols) ==
    /\ diversification' = [asked |-> TRUE, symbols |-> symbols,
                           score |-> diversificationScore(CorrelationMatrix, symbols)]
    /\ UNCHANGED <<PriceHistory, CorrelationMatrix>>
    /\ analyzerOnly

NextCorr ==
    \/ \E order \in Orders(DOMAIN PriceHistory) : CalculateCorrelations(order)
    \/ \E symbols \in Portfolios : GetDiversificationScore(symbols)

\* ---------------------------------------------------------------------------
\* Exact fractions n / d with d > 0, in lowest terms
\* ---------------------------------------------------------------------------

RECURSIVE GCD(_, _)
GCD(a, b) == IF b = 0 THEN a ELSE GCD(b, a % b)

RatOf(n, d) ==
    LET g == GCD(AbsInt(n), AbsInt(d))
        s == IF d < 0 THEN 0 - 1 ELSE 1
    IN  [n |-> (s * n) \div g, d |-> (s * d) \div g]

RatAdd(a, b) == RatOf(a.n * b.d + b.n * a.d, a.d * b.d)

RatMul(a, b) == RatOf(a.n * b.n, a.d * b.d)

\* a / b for b # 0
RatDiv(a, b) == RatOf(a.n * b.d, a.d * b.n)

RatLess(a, b) == a.n * b.d < b.n * a.d

RatLeq(a, b) == a.n * b.d <= b.n * a.d

\* ---------------------------------------------------------------------------
\* PortfolioManager: allocations
\* ---------------------------------------------------------------------------

\* the performance values of the model go up to 10 * MaxPerfSteps percent, both ways
MaxPerfSteps == 11

\* the recent volatilities of the model go up to MaxVol hundredths
MaxVol == 10

\* GetTopCoins: the fixed list of top coins
TopCoins == <<"BTCUSDT", "ETHUSDT", "SOLUSDT", "XRPUSDT", "ADAUSDT", "DOGEUSDT">>

\* GetTopCoins(limit)
GetTopCoins(limit) ==
    IF limit < Len(TopCoins) THEN SubSeq(TopCoins, 1, limit) ELSE TopCoins

\* the lists UpdateTopCoins can get from the exchange client: the list of six
\* that the client of this repository returns, and the shorter universes
TopCoinAnswers == {GetTopCoins(limit) : limit \in 1..NumTopCoins}

\* the symbols that have a performance and a volatility record in the model
TrackedSymbols == {"BTCUSDT"}

\* the symbols whose allocation is asked for
AskedSymbols == {"BTCUSDT", "DOGEUSDT"}

\* the symbols that have records in the model of the changing universe: the
\* first two and the last of the top coins
RetainedSymbols == {"BTCUSDT", "ETHUSDT", "DOGEUSDT"}

\* their Performance[symbol]: signal.Strength * 100 of a signal of half strength
RetainedPerformances == {RatOf(50, 1)}

\* their VolatilityTracker[symbol].RecentVolatility: flat prices, or 1 percent
RetainedVolatilities == {RatOf(0, 1), RatOf(1, 100)}

\* Performance[symbol]: percentages
Performances == {RatOf(10 * k, 1) : k \in (0 - MaxPerfSteps)..MaxPerfSteps}

\* VolatilityTracker[symbol].RecentVolatility
Volatilities == {RatOf(v, 100) : v \in (0 - 1)..MaxVol}

\* a symbol without an entry given the whole capital
NoAllocationIsAll == RatOf(1, 1)

\* the allocation of a symbol UpdateTopCoins has given none to
NoAllocation == RatOf(0, 1)

\* GetAllocation
GetAllocation(allocations, symbol) ==
    IF symbol \in DOMAIN allocations THEN allocations[symbol] ELSE NoAllocation

\* a factor that keeps the lower limit only
clampFactorNoUpperLimit(factor) ==
    IF RatLess(factor, RatOf(1, 10)) THEN RatOf(1, 10) ELSE factor

\* if factor < 0.1 { factor = 0.1 } else if factor > 2.0 { factor = 2.0 }
clampFactor(factor) ==
    IF RatLess(factor, RatOf(1, 10)) THEN RatOf(1, 10)
    ELSE IF RatLess(RatOf(2, 1), factor) THEN RatOf(2, 1)
    ELSE factor

\* GetPerformanceBasedAllocation: performanceFactor
performanceFactor(performance) ==
    LET scaled == RatAdd(RatOf(1, 1), RatDiv(performance, RatOf(100, 1)))
        factor == IF RatLess(RatOf(0, 1), performance) THEN scaled
                  ELSE IF RatLess(performance, RatOf(0, 1))
                       THEN (IF RatLess(scaled, RatOf(1, 10)) THEN RatOf(1, 10) ELSE scaled)
                  ELSE RatOf(1, 1)
    IN  clampFactor(factor)

\* GetPerformanceBasedAllocation
GetPerformanceBasedAllocation(allocations, performance, symbol) ==
    LET baseAllocation == GetAllocation(allocations, symbol)
    IN  IF symbol \notin DOMAIN performance THEN baseAllocation
        ELSE RatMul(baseAllocation, performanceFactor(performance[symbol]))

\* GetVolatilityAdjustedAllocation: volatilityFactor, for a volatility above 0
volatilityFactor(recentVolatility) ==
    clampFactor(RatDiv(RatOf(1, 1),
                       RatAdd(RatOf(1, 1), RatMul(recentVolatility, RatOf(100, 1)))))

\* GetVolatilityAdjustedAllocation
GetVolatilityAdjustedAllocation(allocations, volatility, symbol) ==
    LET baseAllocation == GetAllocation(allocations, symbol)
    IN  IF symbol \notin DOMAIN volatility THEN baseAllocation
        ELSE IF RatLess(RatOf(0, 1), volatility[symbol])
             THEN RatMul(baseAllocation, volatilityFactor(volatility[symbol]))
        ELSE baseAllocation

\* GetOptimalAllocation: (perfAllocation + volAllocation) / 2.0
optimalOf(perfAllocation, volAllocation) ==
    RatDiv(RatAdd(perfAllocation, volAllocation), RatOf(2, 1))

\* UpdateTopCoins has not been called
NotUpdated ==
    [asked |-> FALSE, failed |-> FALSE, Symbols |-> <<>>,
     Allocations |-> [s \in {} |-> NoAllocation]]

\* NewPortfolioManager
PortfolioInit ==
    /\ Symbols = <<>>
    /\ Allocations = [s \in {} |-> NoAllocation]
    /\ Performance = [s \in {} |-> NoAllocation]
    /\ RecentVolatility = [s \in {} |-> NoAllocation]
    /\ lastAllocation = [asked |-> FALSE, symbol |-> "none", base |-> NoAllocation,
                         perf |-> NoAllocation, vol |-> NoAllocation,
                         optimal |-> NoAllocation]
    /\ lastUpdate = NotUpdated

\* a new portfolio manager with the performance and the volatility records
\* that earlier cycles can have left (UpdatePerformance, AnalyzeMarketConditions)
PortfolioInputs ==
    /\ Symbols = <<>>
    /\ Allocations = [s \in {} |-> NoAllocation]
    /\ \E keys \in SUBSET TrackedSymbols : Performance \in [keys -> Performances]
    /\ \E keys \in SUBSET TrackedSymbols : RecentVolatility \in [keys -> Volatilities]
    /\ lastAllocation = [asked |-> FALSE, symbol |-> "none", base |-> NoAllocation,
                         perf |-> NoAllocation, vol |-> NoAllocation,
                         optimal |-> NoAllocation]
    /\ lastUpdate = NotUpdated

\* a step of the portfolio manager leaves the rest of the program alone
portfolioOnly == UNCHANGED <<breakerVars, aiVars, botVars, riskVars, corrVars, logVars, regimeVars>>

\* the allocations that keep the entries of the symbols that left the universe
equalAllocationsKeepingOld(allocations, topCoins) ==
    [s \in DOMAIN allocations \cup {topCoins[i] : i \in DOMAIN topCoins} |->
        RatOf(1, Len(topCoins))]

\* pm.Allocations = make(map[string]float64), then 1.0 / len(pm.Symbols) for
\* each symbol of the new universe
equalAllocations(allocations, topCoins) ==
    [s \in {topCoins[i] : i \in DOMAIN topCoins} |-> RatOf(1, Len(topCoins))]

\* UpdateTopCoins, with the list the exchange client answered or its failure:
\* a failed GetTopCoins returns before anything is assigned
UpdateTopCoins(topCoins, failed) ==
    /\ lastUpdate' = [asked |-> TRUE, failed |-> failed,
                      Symbols |-> Symbols, Allocations |-> Allocations]
    /\ IF failed
       THEN UNCHANGED <<Symbols, Allocations>>
       ELSE /\ Symbols' = topCoins
            /\ Allocations' = equalAllocations(Allocations, topCoins)
    /\ UNCHANGED <<Performance, RecentVolatility, lastAllocation>>
    /\ portfolioOnly

\* GetOptimalAllocation(symbol)
GetOptimalAllocation(symbol) ==
    /\ lastAllocation' =
           LET perfAllocation == GetPerformanceBasedAllocation(Allocations, Performance, symbol)
               volAllocation ==
                   GetVolatilityAdjustedAllocation(Allocations, RecentVolatility, symbol)
           IN  [asked |-> TRUE, symbol |-> symbol,
                base |-> GetAllocation(Allocations, symbol),
                perf |-> perfAllocation, vol |-> volAllocation,
                optimal |-> optimalOf(perfAllocation, volAllocation)]
    /\ UNCHANGED <<Symbols, Allocations, Performance, RecentVolatility, lastUpdate>>
    /\ portfolioOnly

NextPortfolio ==
    \/ \E topCoins \in TopCoinAnswers, failed \in BOOLEAN : UpdateTopCoins(topCoins, failed)
    \/ \E symbol \in AskedSymbols : GetOptimalAllocation(symbol)

\* ---------------------------------------------------------------------------
\* PortfolioManager: trade log
\* ---------------------------------------------------------------------------

\* longest trade log of the model
MaxLogLen == 3

\* most closed positions of the model
MaxClosed == 3

\* highest entry or exit price of the model
MaxQuote == 2

LogSymbols == {"BTCUSDT", "ETHUSDT"}

Quotes == 1..MaxQuote

\* NewPortfolioManager: no trade logged, the zero value of PerformanceMetrics
LogInit ==
    /\ TradeLog = <<>>
    /\ PerformanceMetrics = [TotalTrades |-> 0, WinningTrades |-> 0, LosingTrades |-> 0,
                             WinRate |-> RatOf(0, 1), TotalPnL |-> 0,
                             AveragePnL |-> RatOf(0, 1)]
    /\ attached = {}

\* a step of the trade log leaves the rest of the program alone
logOnly ==
    UNCHANGED <<breakerVars, aiVars, botVars, riskVars, corrVars, portfolioVars, regimeVars>>

\* LogTrade: the entry is appended with PnL 0 and CumulativePnL 0
LogTrade(symbol, action) ==
    /\ Len(TradeLog) < MaxLogLen
    /\ TradeLog' = Append(TradeLog, [Symbol |-> symbol, Action |-> action,
                                     PnL |-> 0, CumulativePnL |-> 0])
    /\ UNCHANGED <<PerformanceMetrics, attached>>
    /\ logOnly

\* UpdateTradePnL: pnl of a closed position of quantity 1
pnlOf(entryPrice, exitPrice, isLong) ==
    IF isLong THEN exitPrice - entryPrice ELSE entryPrice - exitPrice

\* UpdateTradePnL: the positions of the log that hold an entry of the symbol
entriesOf(log, symbol) == {i \in DOMAIN log : log[i].Symbol = symbol}

\* the largest element of a non-empty set of numbers
Latest(indexes) == CHOOSE i \in indexes : \A j \in indexes : j <= i

\* UpdateTradePnL
UpdateTradePnL(symbol, entryPrice, exitPrice, isLong) ==
    LET pnl == pnlOf(entryPrice, exitPrice, isLong)
        found == entriesOf(TradeLog, symbol)
        totalPnL == PerformanceMetrics.TotalPnL + pnl
        totalTrades == PerformanceMetrics.TotalTrades + 1
        winningTrades == PerformanceMetrics.WinningTrades + (IF pnl > 0 THEN 1 ELSE 0)
    IN  /\ PerformanceMetrics.TotalTrades < MaxClosed
        /\ IF found = {}
           THEN UNCHANGED <<TradeLog, attached>>
           ELSE /\ TradeLog' =
                       [TradeLog EXCEPT ![Latest(found)] =
                            [@ EXCEPT !.PnL = pnl,
                                      !.CumulativePnL = PerformanceMetrics.TotalPnL + pnl]]
                /\ attached' = attached \cup {Latest(found)}
        /\ PerformanceMetrics' =
               [TotalTrades |-> totalTrades,
                WinningTrades |-> winningTrades,
                LosingTrades |-> PerformanceMetrics.LosingTrades + (IF pnl > 0 THEN 0 ELSE 1),
                WinRate |-> RatOf(winningTrades, totalTrades),
                TotalPnL |-> totalPnL,
                AveragePnL |-> RatOf(totalPnL, totalTrades)]
        /\ logOnly

NextLog ==
    \/ \E symbol \in LogSymbols, action \in {"BUY", "HOLD"} : LogTrade(symbol, action)
    \/ \E symbol \in LogSymbols, entryPrice, exitPrice \in Quotes, isLong \in BOOLEAN :
           UpdateTradePnL(symbol, entryPrice, exitPrice, isLong)

\* ---------------------------------------------------------------------------
\* MarketAnalyzer: the regime of one kline answer, dimension by dimension
\* ---------------------------------------------------------------------------

\* longest series of bars handed to calculateVolatility in the model
MaxMidBars == 13

\* longest kline answer handed to AnalyzeEnhancedMarketConditions in the model
MaxKlineBars == 10

\* the bars of a kline answer in the model: a quiet bar without volume and
\* a wider bar with volume
Bars ==
    {[High |-> 1, Low |-> 1, Close |-> 1, Volume |-> 0],
     [High |-> 3, Low |-> 1, Close |-> 2, Volume |-> 3]}

\* calculateVolatility: recent volatility is taken over the last 10 periods
RecentPeriods == 10

\* calculateVolatility: (high+low)/2
midPrice(high, low) == RatDiv(RatAdd(RatOf(high, 1), RatOf(low, 1)), RatOf(2, 1))

\* the mid prices of the model: bars whose high and low are both 1, or both 2
MidPrices == {midPrice(level, level) : level \in {1, 2}}

\* the closing prices of the model for the trend: 1.000, 1.001, ...
FineCloses == {RatOf(1000 + k, 1000) : k \in 0..(MaxClose - 1)}

\* the bar volumes of the model
Volumes == {RatOf(v, 1) : v \in 0..MaxClose}

SeriesOf(values, maxLen) == UNION {[1..n -> values] : n \in 0..maxLen}

RatAbs(a) == [n |-> AbsInt(a.n), d |-> a.d]

RatSub(a, b) == RatAdd(a, [n |-> 0 - b.n, d |-> b.d])

\* a threshold that also takes the limit itself
exceedsOrReaches(x, limit) == RatLeq(limit, x)

\* x > limit, for the upper threshold of a regime
exceeds(x, limit) == RatLess(limit, x)

\* x > limit
above(x, limit) == RatLess(limit, x)

\* x < limit
below(x, limit) == RatLess(x, limit)

RECURSIVE sumOfChanges(_, _)
\* simpleVolatility: sum of the absolute relative changes up to prices[n]
sumOfChanges(prices, n) ==
    IF n < 2 THEN RatOf(0, 1)
    ELSE IF prices[n - 1] # RatOf(0, 1)
         THEN RatAdd(sumOfChanges(prices, n - 1),
                     RatAbs(RatDiv(RatSub(prices[n], prices[n - 1]), prices[n - 1])))
    ELSE sumOfChanges(prices, n - 1)

\* simpleVolatility: the number of changes counted
countOfChanges(prices) ==
    Cardinality({i \in 2..Len(prices) : prices[i - 1] # RatOf(0, 1)})

\* simpleVolatility
simpleVolatility(prices) ==
    IF Len(prices) < 2 THEN RatOf(0, 1)
    ELSE IF countOfChanges(prices) = 0 THEN RatOf(0, 1)
    ELSE RatDiv(sumOfChanges(prices, Len(prices)), RatOf(countOfChanges(prices), 1))

\* the result of a regime calculation that did not return
Panicked(kind) ==
    [done |-> TRUE, panicked |-> TRUE, kind |-> kind, points |-> 0,
     first |-> RatOf(0, 1), second |-> RatOf(0, 1), regime |-> "none"]

\* the result of a regime calculation: the number of data points, the two
\* measures that were compared (recent and long-term volatility; slope and
\* nothing; volume ratio and average volume) and the regime
Returned(kind, points, first, second, regime) ==
    [done |-> TRUE, panicked |-> FALSE, kind |-> kind, points |-> points,
     first |-> first, second |-> second, regime |-> regime]

\* calculateVolatility, then determineVolatilityRegime; the slice
\* prices[len(prices)-10:] of a series of 2 to 9 prices is out of range
calculateVolatility(prices) ==
    IF Len(prices) < 2
    THEN Returned("volatility", Len(prices), RatOf(0, 1), RatOf(0, 1), "low_volatility")
    ELSE IF Len(prices) < RecentPeriods THEN Panicked("volatility")
    ELSE LET recentVol ==
                 simpleVolatility(SubSeq(prices, Len(prices) - RecentPeriods + 1, Len(prices)))
             longVol == simpleVolatility(prices)
             regime == IF exceeds(recentVol, RatMul(longVol, RatOf(12, 10))) THEN "high"
                       ELSE IF below(recentVol, RatMul(longVol, RatOf(8, 10))) THEN "low"
                       ELSE "medium"
         IN  Returned("volatility", Len(prices), recentVol, longVol,
                      IF regime = "high" THEN "high_volatility"
                      ELSE IF regime = "low" THEN "low_volatility"
                      ELSE "medium_volatility")

RECURSIVE regressionSums(_, _)
\* linearRegressionSlope: sumX, sumY, sumXY, sumXX over the first n values
regressionSums(values, n) ==
    IF n = 0 THEN [sumX |-> RatOf(0, 1), sumY |-> RatOf(0, 1),
                   sumXY |-> RatOf(0, 1), sumXX |-> RatOf(0, 1)]
    ELSE LET before == regressionSums(values, n - 1)
             x == RatOf(n - 1, 1)
         IN  [sumX |-> RatAdd(before.sumX, x),
              sumY |-> RatAdd(before.sumY, values[n]),
              sumXY |-> RatAdd(before.sumXY, RatMul(x, values[n])),
              sumXX |-> RatAdd(before.sumXX, RatMul(x, x))]

\* linearRegressionSlope
linearRegressionSlope(values) ==
    LET n == RatOf(Len(values), 1)
        sums == regressionSums(values, Len(values))
        numerator == RatSub(RatMul(n, sums.sumXY), RatMul(sums.sumX, sums.sumY))
        denominator == RatSub(RatMul(n, sums.sumXX), RatMul(sums.sumX, sums.sumX))
    IN  IF Len(values) < 2 THEN RatOf(0, 1)
        ELSE IF denominator = RatOf(0, 1) THEN RatOf(0, 1)
        ELSE RatDiv(numerator, denominator)

\* calculateTrend, then determineTrendRegime; second is the trend strength
calculateTrend(prices) ==
    IF Len(prices) < 2
    THEN Returned("trend", Len(prices), RatOf(0, 1), RatOf(0, 1), "ranging")
    ELSE LET slope == linearRegressionSlope(prices)
             direction == IF exceeds(slope, RatOf(1, 1000)) THEN "up"
                          ELSE IF below(slope, RatOf(0 - 1, 1000)) THEN "down"
                          ELSE "sideways"
             capped == IF above(RatAbs(slope), RatOf(5, 100)) THEN RatOf(5, 100)
                       ELSE RatAbs(slope)
         IN  Returned("trend", Len(prices), slope, RatDiv(capped, RatOf(5, 100)),
                      IF direction = "up" THEN "trending_up"
                      ELSE IF direction = "down" THEN "trending_down"
                      ELSE "ranging")

RECURSIVE totalOf(_, _)
\* calculateVolumeProfile: totalVolume += volume
totalOf(volumes, n) == IF n = 0 THEN RatOf(0, 1) ELSE RatAdd(totalOf(volumes, n - 1), volumes[n])

\* calculateVolumeProfile with a volume ratio of 0 where the average volume is not positive
calculateVolumeProfileFromZero(volumes) ==
    IF Len(volumes) = 0
    THEN Returned("volume", 0, RatOf(0, 1), RatOf(0, 1), "normal_volume")
    ELSE LET currentVolume == volumes[Len(volumes)]
             averageVolume == RatDiv(totalOf(volumes, Len(volumes)), RatOf(Len(volumes), 1))
             ratio == IF above(averageVolume, RatOf(0, 1))
                      THEN RatDiv(currentVolume, averageVolume)
                      ELSE RatOf(0, 1)
             trend == IF exceeds(ratio, RatOf(12, 10)) THEN "increasing"
                      ELSE IF below(ratio, RatOf(8, 10)) THEN "decreasing"
                      ELSE "stable"
         IN  Returned("volume", Len(volumes), ratio, averageVolume,
                      IF trend = "increasing" THEN "high_volume"
                      ELSE IF trend = "decreasing" THEN "low_volume"
                      ELSE "normal_volume")

\* calculateVolumeProfile, then determineVolumeRegime
calculateVolumeProfile(volumes) ==
    IF Len(volumes) = 0
    THEN Returned("volume", 0, RatOf(0, 1), RatOf(0, 1), "normal_volume")
    ELSE LET currentVolume == volumes[Len(volumes)]
             averageVolume == RatDiv(totalOf(volumes, Len(volumes)), RatOf(Len(volumes), 1))
             ratio == IF above(averageVolume, RatOf(0, 1))
                      THEN RatDiv(currentVolume, averageVolume)
                      ELSE RatOf(1, 1)
             trend == IF exceeds(ratio, RatOf(12, 10)) THEN "increasing"
                      ELSE IF below(ratio, RatOf(8, 10)) THEN "decreasing"
                      ELSE "stable"
         IN  Returned("volume", Len(volumes), ratio, averageVolume,
                      IF trend = "increasing" THEN "high_volume"
                      ELSE IF trend = "decreasing" THEN "low_volume"
                      ELSE "normal_volume")

NotAnalyzed ==
    [done |-> FALSE, panicked |-> FALSE, kind |-> "none", points |-> 0,
     first |-> RatOf(0, 1), second |-> RatOf(0, 1), regime |-> "none"]

\* no kline answer analyzed yet
RegimeInit ==
    /\ regimeInput = [kind |-> "none", series |-> <<>>]
    /\ regimeResult = NotAnalyzed

\* one series of a kline answer: its mid prices, its closes or its volumes
RegimeInputs ==
    /\ \/ regimeInput \in [kind : {"volatility"}, series : SeriesOf(MidPrices, MaxMidBars)]
       \/ regimeInput \in [kind : {"trend"}, series : SeriesOf(FineCloses, MaxBars)]
       \/ regimeInput \in [kind : {"volume"}, series : SeriesOf(Volumes, MaxBars)]
       \/ regimeInput \in [kind : {"kline"}, series : SeriesOf(Bars, MaxKlineBars)]
    /\ regimeResult = NotAnalyzed

\* a step of the regime calculation leaves the rest of the program alone
regimeOnly ==
    UNCHANGED <<breakerVars, aiVars, botVars, riskVars, corrVars, portfolioVars, logVars>>

\* AnalyzeMarketConditions: volatility := ma.calculateVolatility(data)
CalculateVolatility ==
    /\ regimeInput.kind = "volatility"
    /\ ~regimeResult.done
    /\ regimeResult' = calculateVolatility(regimeInput.series)
    /\ UNCHANGED regimeInput
    /\ regimeOnly

\* AnalyzeMarketConditions: trend := ma.calculateTrend(data)
CalculateTrend ==
    /\ regimeInput.kind = "trend"
    /\ ~regimeResult.done
    /\ regimeResult' = calculateTrend(regimeInput.series)
    /\ UNCHANGED regimeInput
    /\ regimeOnly

\* AnalyzeMarketConditions: volume := ma.calculateVolumeProfile(data)
CalculateVolumeProfile ==
    /\ regimeInput.kind = "volume"
    /\ ~regimeResult.done
    /\ regimeResult' = calculateVolumeProfile(regimeInput.series)
    /\ UNCHANGED regimeInput
    /\ regimeOnly

\* the mid prices (high + low) / 2 of a kline answer, as calculateVolatility reads them
midPricesOf(kline) == [i \in 1..Len(kline) |-> midPrice(kline[i].High, kline[i].Low)]

\* the closing prices of a kline answer, as calculateTrend reads them
closesOf(kline) == [i \in 1..Len(kline) |-> RatOf(kline[i].Close, 1)]

\* the volumes of a kline answer, as calculateVolumeProfile reads them
volumesOf(kline) == [i \in 1..Len(kline) |-> RatOf(kline[i].Volume, 1)]

\* the tracker values behind the regime names of determineVolatilityRegime,
\* determineTrendRegime and determineVolumeRegime
trackersOf(volatility, trend, volume) ==
    [VolatilityRegime |-> CHOOSE v \in VolatilityRegimes :
                              determineVolatilityRegime(v) = volatility.regime,
     TrendDirection   |-> CHOOSE d \in TrendDirections :
                              determineTrendRegime(d) = trend.regime,
     VolumeTrend      |-> CHOOSE t \in VolumeTrends :
                              determineVolumeRegime(t) = volume.regime]

\* AnalyzeEnhancedMarketConditions(ctx, symbol, data): the indicators MACD,
\* stochastic RSI and VWAP are computed and kept nowhere, then
\* AnalyzeMarketConditions computes volatility, trend and volume, replaces
\* the price history and the three trackers of the symbol and returns the
\* regime without an error; a panic of calculateVolatility leaves the
\* analyzer as it was
AnalyzeEnhancedMarketConditions(symbol) ==
    /\ regimeInput.kind = "kline"
    /\ ~regimeResult.done
    /\ LET data == regimeInput.series
           volatility == calculateVolatility(midPricesOf(data))
           trend == calculateTrend(closesOf(data))
           volume == calculateVolumeProfile(volumesOf(data))
           trackers == trackersOf(volatility, trend, volume)
       IN  IF volatility.panicked
           THEN /\ regimeResult' = Panicked("kline")
                /\ UNCHANGED <<analyzer, PriceHistory>>
           ELSE /\ regimeResult' =
                       Returned("kline", Len(data), RatOf(0, 1), RatOf(0, 1), "none")
                /\ PriceHistory' =
                       [s \in DOMAIN PriceHistory \cup {symbol} |->
                            IF s = symbol
                            THEN updatePriceHistory([i \in 1..Len(data) |-> data[i].Close])
                            ELSE PriceHistory[s]]
                /\ analyzer' =
                       [VolatilityTracker |->
                            [analyzer.VolatilityTracker EXCEPT ![symbol] = trackers.VolatilityRegime],
                        TrendIndicator |->
                            [analyzer.TrendIndicator EXCEPT ![symbol] = trackers.TrendDirection],
                        VolumeAnalysis |->
                            [analyzer.VolumeAnalysis EXCEPT ![symbol] = trackers.VolumeTrend]]
    /\ UNCHANGED <<regimeInput, StrategyWeights, selected, lastCalc, CorrelationMatrix,
                   diversification, breakerVars, botVars, riskVars, portfolioVars, logVars>>

NextRegime ==
    \/ CalculateVolatility
    \/ CalculateTrend
    \/ CalculateVolumeProfile
    \/ \E symbol \in SymbolIds : AnalyzeEnhancedMarketConditions(symbol)

Init ==
    /\ BreakerInit
    /\ AIInit
    /\ BotInit
    /\ RiskInit
    /\ CorrInit
    /\ PortfolioInit
    /\ LogInit
    /\ RegimeInit

SpecAI == Init /\ [][NextAI]_vars

SpecBot == Init /\ [][NextBot]_vars

SpecLoop == Init /\ [][NextLoop]_vars

SpecQueue == Init /\ [][NextQueue]_vars

SpecRisk == Init /\ [][NextRisk]_vars

SpecHalt == Init /\ [][NextHalt]_vars

SpecLog == Init /\ [][NextLog]_vars

\* the program after construction, with one kline series to analyze
InitRegime ==
    /\ BreakerInit
    /\ AIInit
    /\ BotInit
    /\ RiskInit
    /\ CorrInit
    /\ PortfolioInit
    /\ LogInit
    /\ RegimeInputs

SpecRegime == InitRegime /\ [][NextRegime]_vars

\* the program after construction, with performance and volatility records
InitPortfolio ==
    /\ BreakerInit
    /\ AIInit
    /\ BotInit
    /\ RiskInit
    /\ CorrInit
    /\ PortfolioInputs
    /\ LogInit
    /\ RegimeInit

SpecPortfolio == InitPortfolio /\ [][NextPortfolio]_vars

\* a new portfolio manager with the records earlier cycles can have left for
\* some symbols, inside and outside the universes to come
UniverseInputs ==
    /\ Symbols = <<>>
    /\ Allocations = [s \in {} |-> NoAllocation]
    /\ \E keys \in SUBSET RetainedSymbols : Performance \in [keys -> RetainedPerformances]
    /\ \E keys \in SUBSET RetainedSymbols :
           RecentVolatility \in [keys -> RetainedVolatilities]
    /\ lastAllocation = [asked |-> FALSE, symbol |-> "none", base |-> NoAllocation,
                         perf |-> NoAllocation, vol |-> NoAllocation,
                         optimal |-> NoAllocation]
    /\ lastUpdate = NotUpdated

\* the program after construction, with records retained for some symbols
InitUniverse ==
    /\ BreakerInit
    /\ AIInit
    /\ BotInit
    /\ RiskInit
    /\ CorrInit
    /\ UniverseInputs
    /\ LogInit
    /\ RegimeInit

SpecUniverse == InitUniverse /\ [][NextPortfolio]_vars

\* the program after construction, its analyzer holding some price histories
InitCorr ==
    /\ BreakerInit
    /\ AIInit
    /\ BotInit
    /\ RiskInit
    /\ CorrInputs
    /\ PortfolioInit
    /\ LogInit
    /\ RegimeInit

SpecCorr == InitCorr /\ [][NextCorr]_vars

NextCB ==
    \/ Advance
    \/ \E c \in Callers : CallLock(c)
    \/ \E c \in Callers : CallCheck(c)
    \/ \E c \in Callers : CallReturn(c, TRUE)
    \/ \E c \in Callers : CallReturn(c, FALSE)

SpecCB == Init /\ [][NextCB]_vars

TypeOK ==
    /\ cb.state \in {"closed", "open", "half-open"}
    /\ cb.failureCount \in 0..FailureThreshold
    /\ cb.lastFailureTime \in 0..now
    /\ now \in 0..(MaxTime + 1)

(***************************************************************************)
(* Properties of the circuit breaker                                       *)
(***************************************************************************)
Invoking == {c \in Callers : pc[c] = "invoking"}

InCall == {c \in Callers : pc[c] # "idle"}

\* caller c leaves the state check in this step
ChecksNow(c) == pc[c] = "locked" /\ pc'[c] # "locked"

\* caller c's wrapped operation returns in this step
ReturnsNow(c) == pc[c] = "invoking" /\ pc'[c] = "idle"

\* C1: from closed with failureCount = 0, the breaker is still closed after
\* fewer than 5 consecutive failed calls and is open once the 5th has failed.
C1_OpensAtThreshold ==
    /\ streak < 5 => cb.state = "closed"
    /\ (streak = 5 /\ InCall = {}) => cb.state = "open"

C1_Witness ==
    /\ streak = 5
    /\ lastOutcome = "failure"
    /\ cb.state = "open"

\* C2: a Call that finds the breaker open with now - lastFailureTime <= Timeout
\* returns CircuitOpenError, does not invoke the operation, and leaves state,
\* failureCount and lastFailureTime as they were.
C2_FastFailWhileOpen ==
    [][\A c \in Callers :
          (ChecksNow(c) /\ cb.state = "open" /\ now - cb.lastFailureTime <= Timeout)
              => /\ ret'[c] = "CircuitOpenError"
                 /\ pc'[c] = "idle"
                 /\ Invoking' = Invoking
                 /\ cb' = cb]_vars

C2_Witness ==
    /\ lastOutcome = "fast_fail"
    /\ cb.state = "open"
    /\ now - cb.lastFailureTime = Timeout
    /\ \E c \in Callers : ret[c] = "CircuitOpenError"

\* C3: a Call that finds the breaker open with more than Timeout elapsed moves
\* it to half-open and invokes the operation; when that trial succeeds the
\* breaker is closed with failureCount = 0.
C3_TrialAfterTimeout ==
    [][\A c \in Callers :
          /\ (ChecksNow(c) /\ cb.state = "open" /\ now - cb.lastFailureTime > Timeout)
                => (cb'.state = "half-open" /\ pc'[c] = "invoking")
          /\ (ReturnsNow(c) /\ cb.state = "half-open" /\ ret'[c] = "nil")
                => (cb'.state = "closed" /\ cb'.failureCount = 0)]_vars

C3_Witness ==
    /\ lastOutcome = "trial_success"
    /\ cb.state = "closed"
    /\ cb.failureCount = 0
    /\ now - cb.lastFailureTime > Timeout

\* C4: a failed half-open trial puts the breaker back to open with
\* lastFailureTime = the time of that failure and returns the operation's own
\* error; the next Call within Timeout of that failure fast-fails without
\* invoking the operation.
C4_FailedTrialReopens ==
    [][\A c \in Callers :
          /\ (ReturnsNow(c) /\ cb.state = "half-open" /\ ret'[c] # "nil")
                => /\ cb'.state = "open"
                   /\ cb'.lastFailureTime = now
                   /\ ret'[c] = "OpError"
          /\ (ChecksNow(c) /\ lastOutcome = "trial_failure" /\ now - failedAt <= Timeout)
                => /\ ret'[c] = "CircuitOpenError"
                   /\ pc'[c] = "idle"
                   /\ Invoking' = Invoking]_vars

C4_Witness ==
    /\ streak > FailureThreshold
    /\ lastOutcome = "fast_fail"
    /\ cb.state = "open"
    /\ cb.lastFailureTime = failedAt
    /\ failedAt > Timeout
    /\ now > failedAt

\* C5: a successful Call in the closed state resets failureCount to 0; the
\* breaker leaves closed only when failureThreshold failures have occurred
\* since the last success; whenever it is closed, failureCount is below
\* failureThreshold.
C5_ClosedBelowThreshold ==
    /\ [](cb.state = "closed" => cb.failureCount < FailureThreshold)
    /\ [][\A c \in Callers :
             (ReturnsNow(c) /\ cb.state = "closed" /\ ret'[c] = "nil")
                 => (cb'.state = "closed" /\ cb'.failureCount = 0)]_vars
    /\ [][(cb.state = "closed" /\ cb'.state # "closed")
             => streak' >= FailureThreshold]_vars

C5_Witness ==
    /\ lastOutcome = "success"
    /\ cb.state = "closed"
    /\ cb.failureCount = 0
    /\ failedAt > 0
    /\ \E c \in Callers : ret[c] = "OpError"

\* C6: the Call protocol is a critical section: at most one caller is inside
\* it, at most one wrapped operation is executing, and while the breaker is
\* half-open exactly one trial operation is executing.
C6_CallIsAtomic ==
    /\ Cardinality(InCall) <= 1
    /\ Cardinality(Invoking) <= 1
    /\ cb.state = "half-open" => Cardinality(Invoking) = 1

C6_Witness ==
    /\ cb.state = "half-open"
    /\ \E c \in Callers :
          /\ pc[c] = "invoking"
          /\ mu = {c}
          /\ \E d \in Callers \ {c} : ret[d] = "OpError"

(***************************************************************************)
(* Properties of the strategy weight engine                                *)
(***************************************************************************)
HasWeights(s) == StrategyWeights[s] # <<>>

\* the strategies that hold the greatest stored weight of symbol s
Heaviest(s) ==
    {k \in StrategySet :
        \A l \in StrategySet : ~Greater(StrategyWeights[s][l], StrategyWeights[s][k])}

\* the first of the heaviest strategies in the priority order
FirstHeaviest(s) ==
    Strategies[CHOOSE i \in 1..Len(Strategies) :
        /\ Strategies[i] \in Heaviest(s)
        /\ \A j \in 1..(i - 1) : Strategies[j] \notin Heaviest(s)]

\* C8: for every regime the four weights that calculateStrategyWeights returns
\* sum to 1.0 (the numerators sum to the common denominator).
C8_WeightsSumToOne ==
    \A s \in SymbolIds :
        HasWeights(s) =>
            /\ \A k \in StrategySet : StrategyWeights[s][k].den = StrategyWeights[s][Strategies[1]].den
            /\ StrategyWeights[s][Strategies[1]].num + StrategyWeights[s][Strategies[2]].num
                 + StrategyWeights[s][Strategies[3]].num + StrategyWeights[s][Strategies[4]].num
               = StrategyWeights[s][Strategies[1]].den

C8_Witness ==
    \E s \in SymbolIds :
        /\ HasWeights(s)
        /\ StrategyWeights[s] = calculateStrategyWeights(GetMarketRegime(analyzer, s))
        /\ GetMarketRegime(analyzer, s) =
              [Volatility |-> "medium_volatility", Trend |-> "ranging", Volume |-> "normal_volume"]

\* C9: for every regime each of the four weights stored in
\* StrategyWeights[symbol] is >= 0.
C9_WeightsNonNegative ==
    \A s \in SymbolIds :
        HasWeights(s) => \A k \in StrategySet : StrategyWeights[s][k].num >= 0

\* C10: SelectStrategy returns the first strategy, in the order market-making,
\* momentum, mean-reversion, volatility-breakout, among those with the
\* greatest weight.
C10_SelectByPriority ==
    \A s \in SymbolIds :
        selected[s] # "none" => selected[s] = FirstHeaviest(s)

\* the delta table of the design, in hundredths: the row of a regime value
\* (no row: no delta)
TableRow(value) ==
    CASE value = "high_volatility"                  -> weightsOf(-10, 10, -30, 30)
      [] value = "low_volatility"                   -> weightsOf(10, -10, 30, -30)
      [] value \in {"trending_up", "trending_down"} -> weightsOf(-20, 40, -20, 0)
      [] value = "ranging"                          -> weightsOf(10, -30, 40, -20)
      [] value = "high_volume"                      -> weightsOf(-20, 20, -20, 20)
      [] value = "low_volume"                       -> weightsOf(30, -20, 10, -20)
      [] OTHER                                      -> weightsOf(0, 0, 0, 0)

\* C11: the un-normalised weight of each strategy is 0.25 plus the table
\* deltas of the regime's volatility, trend and volume; trending_up and
\* trending_down share a row, and medium volatility, normal volume and an
\* unrecognised value have none.
C11_RawWeightsFollowTable ==
    lastCalc.done =>
        \A k \in StrategySet :
            lastCalc.raw[k] = 25 + TableRow(lastCalc.regime.Volatility)[k]
                                 + TableRow(lastCalc.regime.Trend)[k]
                                 + TableRow(lastCalc.regime.Volume)[k]

C11_Witness ==
    /\ lastCalc.done
    /\ lastCalc.regime.Volatility = "medium_volatility"
    /\ lastCalc.regime.Trend = "trending_down"
    /\ lastCalc.regime.Volume = "low_volume"
    /\ lastCalc.raw = weightsOf(35, 45, 15, 5)

(***************************************************************************)
(* Properties of the risk manager                                          *)
(***************************************************************************)
\* the rules of CheckStopLossTakeProfit as seen by the latest check
TrailingHit == lastCheck.before.trailingActive
               /\ lastCheck.price * 100 <= lastCheck.before.trailingStop

StopLossHit == lastCheck.price * 100 <= lastCheck.before.stopLoss

TakeProfitHit == lastCheck.price * 100 >= lastCheck.before.takeProfit

\* the latest check moved the trailing level or the peak of the position
Ratcheted ==
    \/ lastCheck.after.trailingStop # lastCheck.before.trailingStop
    \/ lastCheck.after.peakValue # lastCheck.before.peakValue

\* C12: a check emits at most one action for the position: TRAILING_STOP if
\* the trailing stop is active and the price is at or below its level, else
\* STOP_LOSS if the price is at or below the stop-loss level, else
\* TAKE_PROFIT if the price is at or above the take-profit level, else none;
\* the trailing level and the peak move only when no action was emitted.
C12_OneActionByPriority ==
    lastCheck.done =>
        /\ Len(lastCheck.actions) <= 1
        /\ TrailingHit => lastCheck.actions = <<"TRAILING_STOP">>
        /\ (~TrailingHit /\ StopLossHit) => lastCheck.actions = <<"STOP_LOSS">>
        /\ (~TrailingHit /\ ~StopLossHit /\ TakeProfitHit)
               => lastCheck.actions = <<"TAKE_PROFIT">>
        /\ (~TrailingHit /\ ~StopLossHit /\ ~TakeProfitHit) => lastCheck.actions = <<>>
        /\ Ratcheted => lastCheck.actions = <<>>

\* a check at a price that is below both the raised trailing level and the
\* stop-loss level
C12_Witness ==
    /\ lastCheck.done
    /\ TrailingHit
    /\ StopLossHit
    /\ lastCheck.before.trailingStop > lastCheck.before.stopLoss
    /\ lastCheck.actions = <<"TRAILING_STOP">>

\* C13: while a position stays open its peak value never decreases, and once
\* its trailing stop is active it stays active and its level never decreases.
C13_PeakAndTrailingMonotonic ==
    [][\A s \in SymbolIds :
          (Positions[s].open /\ Positions'[s].open) =>
              /\ Positions'[s].peakValue >= Positions[s].peakValue
              /\ Positions[s].trailingActive =>
                    /\ Positions'[s].trailingActive
                    /\ Positions'[s].trailingStop >= Positions[s].trailingStop]_vars

\* a position whose trailing stop was ratcheted and which then saw a price
\* between the new level and the peak
C13_Witness ==
    \E s \in SymbolIds :
        /\ Positions[s].open
        /\ Positions[s].trailingActive
        /\ Positions[s].trailingStop > Positions[s].stopLoss
        /\ Positions[s].currentPrice < Positions[s].peakValue
        /\ Positions[s].currentPrice * 100 > Positions[s].trailingStop
        /\ lastCheck.done
        /\ lastCheck.price = Positions[s].currentPrice
        /\ lastCheck.before.trailingStop = Positions[s].trailingStop

\* C14: ShouldStopTrading returns true exactly when the drawdown is above
\* twice the configured maximum or the exposure above one and a half times
\* the total capital; at exactly these values it returns false.
C14_StopExactlyAboveLimits ==
    stopAdvice.asked =>
        /\ stopAdvice.stop <=> (\/ riskMetrics.drawdown > 2 * MaxDrawdown
                                \/ 2 * riskMetrics.exposure > 3 * TotalCapital)
        /\ (riskMetrics.drawdown = 2 * MaxDrawdown /\ 2 * riskMetrics.exposure = 3 * TotalCapital)
               => ~stopAdvice.stop

\* asked at exactly twice the maximum drawdown and one and a half times capital
C14_Witness ==
    /\ stopAdvice.asked
    /\ riskMetrics.drawdown = 2 * MaxDrawdown
    /\ 2 * riskMetrics.exposure = 3 * TotalCapital
    /\ ~stopAdvice.stop

(***************************************************************************)
(* Properties of the trading loop                                          *)
(***************************************************************************)
\* C7: a trading cycle that starts when the breaker is open and more than
\* Timeout has elapsed since the last failure goes on to the protected call
\* (the half-open trial) instead of being skipped.
C7_CycleRetriesAfterTimeout ==
    [][(/\ botPc = "cycle_start"
        /\ botPc' # "cycle_start"
        /\ cb.state = "open"
        /\ now - cb.lastFailureTime > Timeout)
          => botPc' = "update"]_vars

\* C15: a cycle whose risk check finds ShouldStopTrading() true sets the
\* running flag to false and raises the emergency alert.
C15_RiskStopClearsRunning ==
    [][(botPc = "risk" /\ botPc' = "wait" /\ stopTrading')
          => (IsRunning' = FALSE /\ cycleAlert')]_vars

\* C16: while the loop waits with the running flag false, a tick is skipped:
\* no step of a cycle runs, nothing of the cycle or the breaker changes, and
\* the loop goes on waiting.
C16_StoppedTickSkipsCycle ==
    [][(botPc = "wait" /\ ~IsRunning) =>
        ( /\ botPc' \in {"wait", "stopped"}
          /\ (lastTick' # lastTick) => (lastTick' = "skipped" /\ botPc' = "wait")
          /\ UNCHANGED <<cb, fetchIdx, cycleResult, marketData, traded, cycleSteps,
                         stopTrading, cycleAlert>> )]_vars

\* a tick was skipped after a completed cycle and the loop still waits
C16_Witness ==
    /\ botPc = "wait"
    /\ ~IsRunning
    /\ lastTick = "skipped"
    /\ cycleResult = "complete"

\* a step of the override channel in which a send was answered or buffered
SendAnswered == httpStatus' # httpStatus \/ Len(OverrideChannel') > Len(OverrideChannel)

\* C17: the override channel never holds more than 10 commands; a send that
\* finds 10 is answered 503 and leaves the channel as it is, a send that
\* finds fewer is answered 200 and appends its command behind the others.
C17_QueueBoundedAndNonBlocking ==
    /\ [](Len(OverrideChannel) <= 10)
    /\ [][
          /\ (Len(OverrideChannel) = 10 /\ OverrideChannel' # Tail(OverrideChannel))
                => (OverrideChannel' = OverrideChannel)
          /\ (Len(OverrideChannel) = 10 /\ SendAnswered)
                => (httpStatus' = 503 /\ OverrideChannel' = OverrideChannel)
          /\ (Len(OverrideChannel) < 10 /\ SendAnswered)
                => ( /\ httpStatus' = 200
                     /\ Len(OverrideChannel') = Len(OverrideChannel) + 1
                     /\ SubSeq(OverrideChannel', 1, Len(OverrideChannel)) = OverrideChannel
                     /\ OverrideChannel'[Len(OverrideChannel')] \in PostedCommands )
       ]_vars

\* a send was rejected and the channel still holds its 10 commands
C17_Witness ==
    /\ Len(OverrideChannel) = 10
    /\ httpStatus = 503

\* the handler leaves its switch in this step
HandlesNow == handlerPc = "switch" /\ handlerPc' = "receive"

\* C18: start sets the running flag, stop and emergency_stop clear it,
\* rebalance leaves it; any other command leaves the flag and the rest of
\* the bot as they are and sends no alert.
C18_CommandEffects ==
    [][HandlesNow =>
        ( /\ (handlerCommand = "start") => IsRunning'
          /\ (handlerCommand \in {"stop", "emergency_stop"}) => ~IsRunning'
          /\ (handlerCommand = "rebalance") => (IsRunning' = IsRunning)
          /\ (handlerCommand \notin {"start", "stop", "rebalance", "emergency_stop"}) =>
              ( /\ IsRunning' = IsRunning
                /\ ~commandAlert'
                /\ UNCHANGED <<cb, botPc, fetchIdx, cycleResult, marketData, traded,
                               cycleSteps, stopTrading, cycleAlert, lastTick,
                               OverrideChannel, aiVars, riskVars, calcVars>> ) )]_vars

\* an unknown command was handled while the bot was stopped, and it still is
C18_Witness ==
    /\ handlerPc = "receive"
    /\ handlerCommand = "pause"
    /\ ~IsRunning
    /\ ~commandAlert

\* the protected call of step 1 counts a failure in this step
UpdateFailsNow == botPc = "update" /\ cb'.failureCount > cb.failureCount

\* C19: when the universe refresh of step 1 fails, the cycle returns at
\* once with that error: no market data is fetched, nothing is selected,
\* executed or logged, neither rebalance nor risk check runs, and step 1 is
\* not tried again in this cycle.
C19_UpdateFailureEndsCycle ==
    /\ [][UpdateFailsNow =>
           ( /\ botPc' = "wait"
             /\ cycleResult' = "update_failed"
             /\ cycleSteps' = {"update"}
             /\ UNCHANGED <<marketData, traded, stopTrading, cycleAlert, IsRunning>> )]_vars
    /\ []((botPc = "wait" /\ cycleResult = "update_failed") =>
             (cycleSteps = {"update"} /\ marketData = {} /\ traded = {} /\ ~cycleAlert))

\* a cycle ended by the failure of step 1, the breaker having counted it
C19_Witness ==
    /\ botPc = "wait"
    /\ cycleResult = "update_failed"
    /\ cycleSteps = {"update"}
    /\ cb.failureCount > 0

\* C20: a symbol whose market-data request the exchange answers gets its
\* market data whatever happened to the other symbols, and no cycle ends
\* with the rebalance error.
C20_FetchFailuresIsolated ==
    /\ [][(botPc = "fetch" /\ fetchIdx' # fetchIdx /\ fetchAnswered')
             => fetchIdx \in marketData']_vars
    /\ [](cycleResult # "rebalance_failed")

\* the market-data loop of the current cycle is over
FetchLoopDone == botPc \in {"select", "execute", "rebalance", "risk"}

\* C21: a symbol whose market-data fetch failed in this cycle is passed over
\* for the rest of the cycle: no weights are stored for it and no trade is
\* executed or logged for it.
C21_FailedSymbolSkipped ==
    FetchLoopDone =>
        \A i \in SymbolIndexes :
            i \notin marketData => (i \notin weighted /\ i \notin traded)

\* the protected call of the rebalance step fails in this step: the operation
\* fails, or the open breaker rejects the call
RebalanceFailsNow ==
    /\ botPc = "rebalance"
    /\ botPc' # "rebalance"
    /\ \/ cb'.failureCount > cb.failureCount
       \/ (State(cb) = "open" /\ ~TimeoutElapsed(cb, now))

\* C22: a cycle whose rebalance step fails returns the error at once: the
\* risk check does not run, ShouldStopTrading is not asked and no emergency
\* alert is raised in that cycle.
C22_RebalanceFailureEndsCycle ==
    /\ [][RebalanceFailsNow =>
           ( /\ botPc' = "wait"
             /\ cycleResult' = "rebalance_failed"
             /\ "risk" \notin cycleSteps'
             /\ UNCHANGED <<stopTrading, cycleAlert, IsRunning>> )]_vars
    /\ []((botPc = "wait" /\ cycleResult = "rebalance_failed") =>
             ("risk" \notin cycleSteps /\ ~stopTrading /\ ~cycleAlert))

\* a cycle ended by the breaker rejecting the rebalance call
C22_Witness ==
    /\ botPc = "wait"
    /\ cycleResult = "rebalance_failed"
    /\ "rebalance" \in cycleSteps
    /\ State(cb) = "open"
    /\ ~cycleAlert

\* C23: once the context is cancelled, the cycle starts no further strategy
\* execution and no further trade alert: the execute step of a cancelled
\* context leaves the cycle without any symbol traded
C23_NoSideEffectAfterCancel ==
    [][(cancelled /\ botPc = "execute" /\ botPc' # "execute") => traded' = {}]_vars

\* the loop has returned
LoopReturned == botPc = "stopped"

\* the trading loop with the scheduling Go gives it: a cycle in progress keeps
\* taking its steps, and a select that finds ctx.Done ready again and again
\* picks that case at some point (select chooses among its ready cases at random)
CycleStep ==
    \/ Run
    \/ CycleStart
    \/ \E opOk \in BOOLEAN : CycleUpdateTopCoins(opOk)
    \/ \E opOk \in BOOLEAN : CycleFetch(opOk)
    \/ CycleSelect
    \/ CycleExecute
    \/ \E opOk \in BOOLEAN : CycleRebalance(opOk)
    \/ \E stop \in BOOLEAN : CycleRiskCheck(stop)

SpecLoopFair ==
    /\ Init
    /\ [][NextLoop]_vars
    /\ WF_vars(CycleStep)
    /\ SF_vars(ShutdownOnCancel)

\* the override handler goroutine with the scheduling Go gives it: it is
\* never starved, so a pending receive and a pending switch are carried out;
\* the trading loop and the operator are promised nothing
SpecQueueFair ==
    /\ Init
    /\ [][NextQueueLoop]_vars
    /\ WF_vars(ReceiveOverride)
    /\ WF_vars(\E command \in Commands : handleOverrideCommands(command))

\* C24: the loop returns only from its wait, when the cancellation, the
\* interrupt or the stop signal is taken there; once it has returned it starts
\* no further cycle; and under fair scheduling a raised cancellation
\* eventually ends the loop
C24_LoopTerminates ==
    /\ [][(~LoopReturned /\ botPc' = "stopped") => botPc = "wait"]_vars
    /\ [][LoopReturned => (botPc' = "stopped" /\ UNCHANGED <<cycleSteps, traded, cycleResult>>)]_vars
    /\ (cancelled ~> LoopReturned)

C24_Witness ==
    /\ cancelled
    /\ LoopReturned
    /\ cycleResult = "complete"
    /\ lastTick = "cycle"

\* -1 <= x <= 1
InUnitRange(x) == ~Less(x, Neg(One)) /\ ~Less(One, x)

NoPairEntry ==
    \A i, j \in DOMAIN diversification.symbols :
        i < j => <<diversification.symbols[i], diversification.symbols[j]>>
                     \notin DOMAIN CorrelationMatrix

WithinFactorLimits(allocation, base) ==
    /\ RatLeq(RatMul(RatOf(1, 10), base), allocation)
    /\ RatLeq(allocation, RatMul(RatOf(2, 1), base))

\* C27: for any performance and any recent volatility the performance factor
\* and the volatility factor lie in [0.1, 2.0], so the performance-based and
\* the volatility-adjusted allocation lie between 0.1 * base and 2.0 * base
C27_FactorsClamped ==
    /\ \A performance \in Performances :
           /\ RatLeq(RatOf(1, 10), performanceFactor(performance))
           /\ RatLeq(performanceFactor(performance), RatOf(2, 1))
    /\ \A volatility \in Volatilities :
           RatLess(RatOf(0, 1), volatility) =>
               /\ RatLeq(RatOf(1, 10), volatilityFactor(volatility))
               /\ RatLeq(volatilityFactor(volatility), RatOf(2, 1))
    /\ lastAllocation.asked =>
           /\ WithinFactorLimits(lastAllocation.perf, lastAllocation.base)
           /\ WithinFactorLimits(lastAllocation.vol, lastAllocation.base)

C27_Witness ==
    /\ lastAllocation.asked
    /\ lastAllocation.symbol \in DOMAIN Performance
    /\ RatLess(RatOf(100, 1), Performance[lastAllocation.symbol])
    /\ lastAllocation.symbol \in DOMAIN RecentVolatility
    /\ RatLess(RatOf(9, 100), RecentVolatility[lastAllocation.symbol])
    /\ RatLess(RatOf(0, 1), lastAllocation.base)
    /\ lastAllocation.perf = RatMul(RatOf(2, 1), lastAllocation.base)
    /\ lastAllocation.vol = RatMul(RatOf(1, 10), lastAllocation.base)

C29_LogAppendOnlyAndImmutable ==
    [][ /\ Len(TradeLog') >= Len(TradeLog)
        /\ \A i \in DOMAIN TradeLog :
               /\ TradeLog'[i].Symbol = TradeLog[i].Symbol
               /\ TradeLog'[i].Action = TradeLog[i].Action
        /\ \A i \in attached : TradeLog'[i] = TradeLog[i]
      ]_vars

\* the regime that the strict thresholds give: the first name when the
\* measure is above the upper limit, the second when it is below the lower
\* limit, the third otherwise
ByThresholds(measure, upper, lower, high, low, middle) ==
    IF RatLess(upper, measure) THEN high
    ELSE IF RatLess(measure, lower) THEN low
    ELSE middle

\* the latest calculation was one of a single dimension and it returned
DimensionReturned ==
    /\ regimeResult.done
    /\ ~regimeResult.panicked
    /\ regimeResult.kind \in {"volatility", "trend", "volume"}

\* what the thresholds give for the measures of the latest calculation
RegimeByThresholds ==
    IF regimeResult.kind = "volatility"
    THEN ByThresholds(regimeResult.first,
                      RatMul(RatOf(12, 10), regimeResult.second),
                      RatMul(RatOf(8, 10), regimeResult.second),
                      "high_volatility", "low_volatility", "medium_volatility")
    ELSE IF regimeResult.kind = "trend"
    THEN ByThresholds(regimeResult.first, RatOf(1, 1000), RatOf(0 - 1, 1000),
                      "trending_up", "trending_down", "ranging")
    ELSE ByThresholds(regimeResult.first, RatOf(12, 10), RatOf(8, 10),
                      "high_volume", "low_volume", "normal_volume")

\* C30 as stated: every regime that is returned is the one the strict
\* thresholds give for its measures, in each of the three dimensions
C30_RegimeFollowsThresholds ==
    DimensionReturned => regimeResult.regime = RegimeByThresholds

\* the calculation went through its threshold comparison: a volatility over
\* at least two prices, a volume profile over at least one bar, any trend
ThresholdsCompared ==
    /\ DimensionReturned
    /\ regimeResult.kind = "volatility" => regimeResult.points >= 2
    /\ regimeResult.kind = "volume" => regimeResult.points >= 1

\* C30, amended: a regime that comes out of the threshold comparison is the
\* one the strict thresholds give, the limits themselves giving medium,
\* ranging and normal; a volatility over fewer than two prices is low and a
\* volume profile over no bar is normal, whatever the thresholds would give
C30_RegimeFollowsThresholdsWhenCompared ==
    /\ ThresholdsCompared => regimeResult.regime = RegimeByThresholds
    /\ (DimensionReturned /\ ~ThresholdsCompared) =>
           regimeResult.regime \in {"low_volatility", "normal_volume"}

\* a volatility exactly on its upper limit, classified medium
C30_Witness ==
    /\ ThresholdsCompared
    /\ regimeResult.kind = "volatility"
    /\ RatLess(RatOf(0, 1), regimeResult.second)
    /\ regimeResult.first = RatMul(RatOf(12, 10), regimeResult.second)
    /\ regimeResult.regime = "medium_volatility"

\* AnalyzeEnhancedMarketConditions has returned or panicked on the kline answer
KlineAnalyzed == regimeResult.done /\ regimeResult.kind = "kline"

\* the regime a series without information classifies to
NeutralRegime ==
    [Volatility |-> "low_volatility", Trend |-> "ranging", Volume |-> "normal_volume"]

\* C31: a kline answer of fewer than 2 bars (none or one) is analyzed
\* without an error and its regime is low volatility, ranging trend and
\* normal volume
C31_ShortSeriesIsNeutral ==
    KlineAnalyzed /\ Len(regimeInput.series) < 2 =>
        /\ ~regimeResult.panicked
        /\ \A s \in SymbolIds : GetMarketRegime(analyzer, s) = NeutralRegime

\* a kline answer of one bar without volume has been analyzed
C31_Witness ==
    /\ KlineAnalyzed
    /\ Len(regimeInput.series) = 1
    /\ regimeInput.series[1].Volume = 0
    /\ ~regimeResult.panicked

\* C32: whatever the length of the kline answer, the analysis completes:
\* it never ends in a failure
C32_ShortHistoryNeverFails ==
    KlineAnalyzed => ~regimeResult.panicked


\* the regimes the three dimensions are classified to
ClassifiedRegimes ==
    [Volatility : {determineVolatilityRegime(v) : v \in VolatilityRegimes},
     Trend : {determineTrendRegime(d) : d \in TrendDirections},
     Volume : {determineVolumeRegime(t) : t \in VolumeTrends}]

\* C33: the regime GetMarketRegime hands to SelectStrategy always has a
\* volatility of high, medium or low, a trend of up, down or ranging and a
\* volume of high, normal or low, also for a symbol not analyzed yet
C33_RegimeValuesClassified ==
    lastCalc.done => lastCalc.regime \in ClassifiedRegimes


\* weight a >= weight b, for positive denominators
AtLeast(a, b) == a.num * b.den >= b.num * a.den

\* C34: the strategy SelectStrategy returns for a symbol has a weight that
\* is at least the weight of each of the other three, as the same call
\* stored them in StrategyWeights[symbol]
C34_SelectedHasGreatestWeight ==
    \A s \in SymbolIds :
        selected[s] # "none" =>
            \A k \in StrategySet :
                AtLeast(StrategyWeights[s][selected[s]], StrategyWeights[s][k])

\* a strategy other than the initial candidate was selected over a smaller weight
C34_Witness ==
    \E s \in SymbolIds :
        /\ selected[s] \in StrategySet \ {Strategies[1]}
        /\ \E k \in StrategySet :
               ~AtLeast(StrategyWeights[s][k], StrategyWeights[s][selected[s]])


\* C35: a trading cycle begins only while the running flag is true: once
\* stop or emergency_stop was processed and no start after it, no cycle
\* begins, the initial cycle of tradingLoop included
C35_CycleStartsOnlyWhileRunning ==
    [][(botPc # "cycle_start" /\ botPc' = "cycle_start") => IsRunning]_vars


RECURSIVE runningAfterAll(_, _)
\* the value of IsRunning once the given commands are applied one after the other
runningAfterAll(commands, running) ==
    IF commands = <<>> THEN running
    ELSE runningAfterAll(Tail(commands), runningAfter(Head(commands), running))

\* the value IsRunning has once every pending command is applied
finalRunning == runningAfterAll(pendingCommands, IsRunning)

\* C36: every accepted override command is dequeued and applied by
\* handleOverrideCommands, after the commands accepted before it and before
\* those accepted after it, whether or not a cycle is in progress: a followed
\* command keeps its place behind the older ones until it is applied, and it
\* is applied eventually; and the value the running flag has once all
\* pending commands are applied changes only when a command is accepted, to
\* the effect of that command
C36_CommandsAppliedInOrder ==
    /\ [](followed.position > 0 =>
             /\ followed.position <= Len(pendingCommands)
             /\ pendingCommands[followed.position] = followed.command)
    /\ [][\/ finalRunning' = finalRunning
          \/ \E command \in Commands :
                 /\ pendingCommands' = Append(pendingCommands, command)
                 /\ finalRunning' = runningAfter(command, finalRunning)]_vars
    /\ (followed.position > 0 ~> followed.applied)

\* a followed emergency stop has been applied while a cycle was fetching
\* market data, and nothing is pending
C36_Witness ==
    /\ followed.applied
    /\ followed.command = "emergency_stop"
    /\ pendingCommands = <<>>
    /\ ~IsRunning
    /\ botPc = "fetch"


\* the symbols of a universe
SymbolsOf(symbols) == {symbols[i] : i \in DOMAIN symbols}

\* C37: an UpdateTopCoins that fails leaves Symbols and Allocations exactly
\* as they were; one that succeeds leaves exactly one allocation per symbol
\* of the new universe, each 1/N, and none for a symbol that dropped out
C37_UniverseAndAllocationsReset ==
    lastUpdate.asked =>
        IF lastUpdate.failed
        THEN Symbols = lastUpdate.Symbols /\ Allocations = lastUpdate.Allocations
        ELSE /\ DOMAIN Allocations = SymbolsOf(Symbols)
             /\ \A s \in SymbolsOf(Symbols) : Allocations[s] = RatOf(1, Len(Symbols))

\* an update has failed on a universe of two, the performance record of a
\* symbol outside it being retained
C37_Witness ==
    /\ lastUpdate.asked
    /\ lastUpdate.failed
    /\ Len(Symbols) = 2
    /\ "DOGEUSDT" \in DOMAIN Performance
    /\ "DOGEUSDT" \notin DOMAIN Allocations


\* C38: GetOptimalAllocation of a symbol that is not in the current universe
\* is 0, whatever performance and volatility records are retained for it
C38_OutsideUniverseGetsNothing ==
    [][\A symbol \in AskedSymbols :
           (GetOptimalAllocation(symbol) /\ symbol \notin SymbolsOf(Symbols)) =>
               lastAllocation'.optimal = RatOf(0, 1)]_vars

\* the allocation of a symbol with both records was asked for while the
\* universe was the first two top coins, the symbol not among them
C38_Witness ==
    /\ lastAllocation.asked
    /\ lastAllocation.symbol = "DOGEUSDT"
    /\ lastAllocation.optimal = RatOf(0, 1)
    /\ "DOGEUSDT" \in DOMAIN Performance \cap DOMAIN RecentVolatility
    /\ Len(Symbols) = 2
    /\ "DOGEUSDT" \notin SymbolsOf(Symbols)

\* what GetOptimalAllocation(symbol) returns in the current state
optimalAllocationOf(symbol) ==
    optimalOf(GetPerformanceBasedAllocation(Allocations, Performance, symbol),
              GetVolatilityAdjustedAllocation(Allocations, RecentVolatility, symbol))

RECURSIVE totalOptimalAllocation(_, _)
\* the sum of GetOptimalAllocation over the first n symbols of the universe
totalOptimalAllocation(symbols, n) ==
    IF n = 0 THEN RatOf(0, 1)
    ELSE RatAdd(totalOptimalAllocation(symbols, n - 1), optimalAllocationOf(symbols[n]))

\* C39: the optimal allocations of the symbols of the universe sum to at most 1
C39_TotalAllocationAtMostOne ==
    RatLeq(totalOptimalAllocation(Symbols, Len(Symbols)), RatOf(1, 1))


====
